---------------------------- MODULE Spec2Model ----------------------------
(***************************************************************************)
(* A model of the Aceto interpreter (src/acetolang/__init__.py): the grid  *)
(* laid out along a Hilbert curve, the family of stacks, the lexical modes *)
(* and the run() loop with its catch mark; and of the Balsamico editor     *)
(* (src/balsamico.py): its text, its cursor and the file it saves.         *)
(***************************************************************************)
EXTENDS Integers, Sequences, FiniteSets, TLC

VARIABLES code, p, x, y, dir, mode, buf, previous_cmd, catch_mark,
          stacks, sticky, sid, quick, allerr, status, last, nexec,
          string, cursor, text, saved, edlast

\* the fields of the interpreter and the bookkeeping of its run
aceto == <<code, p, x, y, dir, mode, buf, previous_cmd, catch_mark,
           stacks, sticky, sid, quick, allerr, status, last, nexec>>

\* the globals of the editor, the file it wrote and the bookkeeping
balsamico == <<string, cursor, text, saved, edlast>>

vars == <<aceto, balsamico>>

(***************************************************************************)
(* Bounds of the model.                                                    *)
(***************************************************************************)
\* longest program text laid out along the curve
MaxLen == 4
\* longest line read from standard input
MaxLine == 2
\* largest curve order a program text is laid out with
MaxOrder == 2
\* deepest stack explored
MaxStack == 3
\* longest string value (and string buffer) explored
MaxStr == 3
\* largest magnitude of a numerator or denominator explored
MaxInt == 12
\* stack ids explored are -MaxSid .. MaxSid
MaxSid == 1

(***************************************************************************)
(* Arithmetic helpers.                                                     *)
(***************************************************************************)
Pow2(n) == 2 ^ n

Abs(n) == IF n < 0 THEN -n ELSE n

Max2(a, b) == IF a >= b THEN a ELSE b

RECURSIVE BitXor(_, _)
BitXor(a, b) ==
    IF a = 0 THEN b
    ELSE IF b = 0 THEN a
    ELSE ((a + b) % 2) + 2 * BitXor(a \div 2, b \div 2)

RECURSIVE BitAnd(_, _)
BitAnd(a, b) ==
    IF a = 0 \/ b = 0 THEN 0
    ELSE ((a % 2) * (b % 2)) + 2 * BitAnd(a \div 2, b \div 2)

RECURSIVE bit_length(_)
bit_length(n) == IF n <= 0 THEN 0 ELSE 1 + bit_length(n \div 2)

RECURSIVE Gcd(_, _)
Gcd(a, b) == IF b = 0 THEN a ELSE Gcd(b, a % b)

(***************************************************************************)
(* The Hilbert curve of the hilbertcurve package, HilbertCurve(p, 2), as   *)
(* the interpreter uses it.  A result is [err, val]: err names the Python  *)
(* exception raised ("" for none).                                         *)
(***************************************************************************)
\* every second bit of h, from the least significant one
RECURSIVE EvenBits(_)
EvenBits(h) == IF h = 0 THEN 0 ELSE (h % 2) + 2 * EvenBits(h \div 4)

\* the bits of a moved to the even positions
RECURSIVE Spread(_)
Spread(a) == IF a = 0 THEN 0 ELSE (a % 2) + 4 * Spread(a \div 2)

_hilbert_integer_to_transpose(h) == <<EvenBits(h \div 2), EvenBits(h)>>

_transpose_to_hilbert_integer(c) == 2 * Spread(c[1]) + Spread(c[2])

\* one pass of the inner loop body, for coordinate i (1 or 2) and bit Q
Exchange(c, i, Q) ==
    IF BitAnd(c[i], Q) # 0
    THEN [c EXCEPT ![1] = BitXor(c[1], Q - 1)]
    ELSE LET t == BitAnd(BitXor(c[1], c[i]), Q - 1)
         IN  IF i = 1 THEN c
             ELSE <<BitXor(c[1], t), BitXor(c[2], t)>>

\* "Undo excess work": Q = 2, 4, ... while Q # Z, coordinates last to first
RECURSIVE UndoExcess(_, _, _)
UndoExcess(c, Q, Z) ==
    IF Q >= Z THEN c
    ELSE UndoExcess(Exchange(Exchange(c, 2, Q), 1, Q), 2 * Q, Z)

\* "Inverse undo": Q = M, M/2, ... while Q > 1, coordinates first to last
RECURSIVE InverseUndo(_, _)
InverseUndo(c, Q) ==
    IF Q <= 1 THEN c
    ELSE InverseUndo(Exchange(Exchange(c, 1, Q), 2, Q), Q \div 2)

\* t ^= Q - 1 for every bit Q > 1 of the last coordinate
RECURSIVE GrayT(_, _)
GrayT(last_c, Q) ==
    IF Q <= 1 THEN 0
    ELSE BitXor(IF BitAnd(last_c, Q) # 0 THEN Q - 1 ELSE 0, GrayT(last_c, Q \div 2))

\* "Gray decode by H ^ (H/2)" of the transpose c
GrayDecode(c) == <<BitXor(c[1], c[2] \div 2), BitXor(c[2], c[1])>>

coordinates_from_distance(h, order) ==
    IF h > Pow2(2 * order) - 1 \/ h < 0
    THEN [err |-> "ValueError", val |-> <<0, 0>>]
    ELSE [err |-> "",
          val |-> UndoExcess(GrayDecode(_hilbert_integer_to_transpose(h)), 2, Pow2(order))]

\* "Gray encode" of the coordinates c, for the top bit M
XorBoth(c, t) == <<BitXor(c[1], t), BitXor(c[2], t)>>

GrayFold(c, M) == XorBoth(c, GrayT(c[2], M))

GrayEncode(c, M) == GrayFold(<<c[1], BitXor(c[2], c[1])>>, M)

distance_from_coordinates(c, order) ==
    IF c[1] > Pow2(order) - 1 \/ c[2] > Pow2(order) - 1 \/ c[1] < 0 \/ c[2] < 0
    THEN [err |-> "ValueError", val |-> 0]
    ELSE [err |-> "",
          val |-> _transpose_to_hilbert_integer(
                      GrayEncode(InverseUndo(c, Pow2(order - 1)), Pow2(order - 1)))]


(***************************************************************************)
(* Values.  A Python value on a stack is a record [t, n, d, s]: t is the   *)
(* type ("int", "float", "bool", "str"), n/d the number it holds (d = 1    *)
(* for int and bool; a float is the exact quotient n/d in lowest terms)    *)
(* and s the characters of a string.                                       *)
(***************************************************************************)
PyInt(n) == [t |-> "int", n |-> n, d |-> 1, s |-> <<>>]

PyBool(b) == [t |-> "bool", n |-> IF b THEN 1 ELSE 0, d |-> 1, s |-> <<>>]

PyStr(s) == [t |-> "str", n |-> 0, d |-> 1, s |-> s]

PyFloat(n, d) ==
    LET sn == IF d < 0 THEN -n ELSE n
        sd == Abs(d)
        g  == Gcd(Abs(sn), sd)
    IN  [t |-> "float", n |-> sn \div g, d |-> sd \div g, s |-> <<>>]

\* isinstance(v, Number)
IsNumber(v) == v.t \in {"int", "float", "bool"}

\* isinstance(v, int): bool is a subclass of int
IsInt(v) == v.t \in {"int", "bool"}

\* bool(v)
Truthy(v) == IF v.t = "str" THEN v.s # <<>> ELSE v.n # 0

\* Python's floor division and modulo on integers, b # 0
FloorDiv(a, b) == IF b > 0 THEN a \div b ELSE (-a) \div (-b)

PyModInt(a, b) == a - b * FloorDiv(a, b)

IntPow(b, e) == IF e = 0 THEN 1 ELSE b ^ e

\* the result of an operation: err names the exception raised, "" for none;
\* "unmodelled" marks a result outside the values of this model
Ok(v) == [err |-> "", val |-> v]

Err(e) == [err |-> e, val |-> PyInt(0)]

\* a numeric result in the wider type of the operands
Num(a, b, n, d) ==
    IF a.t = "float" \/ b.t = "float" THEN PyFloat(n, d) ELSE PyInt(n \div d)

RECURSIVE Repeat(_, _)
Repeat(s, k) == IF k <= 0 THEN <<>> ELSE s \o Repeat(s, k - 1)

\* y + x
PyAdd(a, b) ==
    IF IsNumber(a) /\ IsNumber(b)
    THEN Ok(Num(a, b, a.n * b.d + b.n * a.d, a.d * b.d))
    ELSE IF a.t = "str" /\ b.t = "str" THEN Ok(PyStr(a.s \o b.s))
    ELSE Err("TypeError")

\* y - x
PySub(a, b) ==
    IF IsNumber(a) /\ IsNumber(b)
    THEN Ok(Num(a, b, a.n * b.d - b.n * a.d, a.d * b.d))
    ELSE Err("TypeError")

\* y * x: a string times an integer repeats the string
PyMul(a, b) ==
    IF IsNumber(a) /\ IsNumber(b)
    THEN Ok(Num(a, b, a.n * b.n, a.d * b.d))
    ELSE IF a.t = "str" /\ IsInt(b) THEN Ok(PyStr(Repeat(a.s, b.n)))
    ELSE IF IsInt(a) /\ b.t = "str" THEN Ok(PyStr(Repeat(b.s, a.n)))
    ELSE Err("TypeError")

\* y // x for a Number x
PyFloorDiv(a, b) ==
    IF ~IsNumber(a) THEN Err("TypeError")
    ELSE IF b.n = 0 THEN Err("ZeroDivisionError")
    ELSE Ok(Num(a, b, FloorDiv(a.n * b.d, a.d * b.n), 1))

\* y / x for a Number x: always a float
PyTrueDiv(a, b) ==
    IF ~IsNumber(a) THEN Err("TypeError")
    ELSE IF b.n = 0 THEN Err("ZeroDivisionError")
    ELSE Ok(PyFloat(a.n * b.d, a.d * b.n))

\* y % x for a Number x; a string y is a format string, and one without a
\* conversion specifier rejects its argument
PyMod(a, b) ==
    IF a.t = "str"
    THEN IF \E i \in 1..Len(a.s) : a.s[i] = "%" THEN Err("unmodelled")
         ELSE Err("TypeError")
    ELSE IF b.n = 0 THEN Err("ZeroDivisionError")
    ELSE LET q == FloorDiv(a.n * b.d, a.d * b.n)
         IN  Ok(Num(a, b, a.n * b.d - q * b.n * a.d, a.d * b.d))

\* y ** x for a Number y
PyPow(a, b) ==
    IF ~IsNumber(b) THEN Err("TypeError")
    ELSE IF b.d # 1 THEN Err("unmodelled")
    ELSE IF b.n >= 0
         THEN Ok(Num(a, b, IntPow(a.n, b.n), IntPow(a.d, b.n)))
    ELSE IF a.n = 0 THEN Err("ZeroDivisionError")
    ELSE Ok(PyFloat(IntPow(a.d, -b.n), IntPow(a.n, -b.n)))

\* y[x] for a string y
PyIndex(a, b) ==
    IF ~IsInt(b) THEN Err("TypeError")
    ELSE LET i == IF b.n < 0 THEN Len(a.s) + b.n + 1 ELSE b.n + 1
         IN  IF i < 1 \/ i > Len(a.s) THEN Err("IndexError")
             ELSE Ok(PyStr(<<a.s[i]>>))

(***************************************************************************)
(* Strings: splitting and the regular-expression calls, for patterns made  *)
(* of plain characters only.                                               *)
(***************************************************************************)
Whitespace == {" ", "\t", "\n"}

\* characters that stand for themselves in a pattern and in a replacement
PlainChars == {"a", "b", "c", " ", "0", "1", "2", "3", "4", "5", "6", "7", "8", "9"}

IsPlain(s) == \A i \in 1..Len(s) : s[i] \in PlainChars

IsPrefix(q, s) == Len(q) <= Len(s) /\ SubSeq(s, 1, Len(q)) = q

Drop(s, k) == SubSeq(s, k + 1, Len(s))

Reverse(s) == [i \in 1..Len(s) |-> s[Len(s) + 1 - i]]

\* x.split(): the pieces between runs of whitespace
RECURSIVE SplitWS(_, _)
SplitWS(s, cur) ==
    LET piece == IF cur = <<>> THEN <<>> ELSE <<cur>>
    IN  IF s = <<>> THEN piece
        ELSE IF Head(s) \in Whitespace THEN piece \o SplitWS(Tail(s), <<>>)
        ELSE SplitWS(Tail(s), Append(cur, Head(s)))

\* y.split(sep) for a non-empty sep
RECURSIVE SplitOn(_, _, _)
SplitOn(s, sep, cur) ==
    IF s = <<>> THEN <<cur>>
    ELSE IF IsPrefix(sep, s) THEN <<cur>> \o SplitOn(Drop(s, Len(sep)), sep, <<>>)
    ELSE SplitOn(Tail(s), sep, Append(cur, Head(s)))

\* len(re.findall(pat, text)) for a plain pattern
RECURSIVE CountMatches(_, _)
CountMatches(pat, txt) ==
    IF pat = <<>> THEN Len(txt) + 1
    ELSE IF Len(txt) < Len(pat) THEN 0
    ELSE IF IsPrefix(pat, txt) THEN 1 + CountMatches(pat, Drop(txt, Len(pat)))
    ELSE CountMatches(pat, Tail(txt))

\* re.sub(pat, repl, txt) for a plain pattern and replacement
RECURSIVE ReSub(_, _, _)
ReSub(pat, repl, txt) ==
    IF pat = <<>>
    THEN IF txt = <<>> THEN repl
         ELSE repl \o <<Head(txt)>> \o ReSub(pat, repl, Tail(txt))
    ELSE IF txt = <<>> THEN <<>>
    ELSE IF IsPrefix(pat, txt) THEN repl \o ReSub(pat, repl, Drop(txt, Len(pat)))
    ELSE <<Head(txt)>> \o ReSub(pat, repl, Tail(txt))


(***************************************************************************)
(* Loading.  A file is its sequence of lines, first line first, each line  *)
(* the sequence of its characters without the newline.                     *)
(***************************************************************************)
RECURSIVE MaxLineLen(_)
MaxLineLen(ls) == IF ls = <<>> THEN 0 ELSE Max2(Len(Head(ls)), MaxLineLen(Tail(ls)))

load_code_hilbert(file) ==
    LET c == Reverse(file)
    IN  [code |-> c, p |-> bit_length(Max2(Len(c), MaxLineLen(c)) - 1)]

(***************************************************************************)
(* The interpreter object during one step is a record st with the fields   *)
(* of Aceto (code, p, x, y, dir, mode, buf, previous_cmd, catch_mark,      *)
(* stacks, sticky, sid, quick) and:                                        *)
(*   env    what the environment supplies to this step: the line input()   *)
(*          returns and the character choice() picks;                      *)
(*   exc    the exception the step has raised ("" for none);               *)
(*   exited whether sys.exit() was called;                                 *)
(*   oob    whether the step left the values of this model;                *)
(*   npop, npush  the calls of pop() and the values pushed in this step.   *)
(* A statement after a raise or an exit is not executed: every operator    *)
(* below leaves a record with exc # "" or exited unchanged.                *)
(***************************************************************************)
SidRange == (0 - MaxSid)..MaxSid

Stopped(st) == st.exc # "" \/ st.exited

Raise(st, e) == IF Stopped(st) THEN st ELSE [st EXCEPT !.exc = e]

\* sys.exit() seen by the handler of run() as any other exception
ExitAsException(st) == IF Stopped(st) THEN st ELSE [st EXCEPT !.exc = "SystemExit"]

Exit(st) == IF Stopped(st) THEN st ELSE [st EXCEPT !.exited = TRUE]

Unmodelled(st) == [st EXCEPT !.oob = TRUE]

\* an exception of an operation result, raised as it is or as another one
RaiseOf(st, r, as) ==
    IF r.err = "unmodelled" THEN Unmodelled(st) ELSE Raise(st, as)

\* self.stacks[self.sid] of the defaultdict
CurStack(st) == IF st.sid \in SidRange THEN st.stacks[st.sid] ELSE <<>>

push(st, thing) ==
    IF Stopped(st) THEN st
    ELSE IF st.sid \notin SidRange THEN Unmodelled(st)
    ELSE [st EXCEPT !.stacks[st.sid] = Append(@, thing), !.npush = @ + 1]

RECURSIVE pushiter(_, _)
pushiter(st, iterable) ==
    IF iterable = <<>> THEN st
    ELSE pushiter(push(st, Head(iterable)), Tail(iterable))

\* the value pop() returns
popped(st) ==
    IF CurStack(st) = <<>> THEN PyInt(0) ELSE CurStack(st)[Len(CurStack(st))]

\* pop() without the except clause
PopRaisesOnEmpty(st) ==
    IF Stopped(st) THEN st
    ELSE IF CurStack(st) = <<>> THEN [st EXCEPT !.npop = @ + 1, !.exc = "IndexError"]
    ELSE IF st.sid \in st.sticky THEN [st EXCEPT !.npop = @ + 1]
    ELSE [st EXCEPT !.stacks[st.sid] = SubSeq(@, 1, Len(@) - 1), !.npop = @ + 1]

\* pop() without the test of the sticky set
PopIgnoresSticky(st) ==
    IF Stopped(st) THEN st
    ELSE IF CurStack(st) = <<>> THEN [st EXCEPT !.npop = @ + 1]
    ELSE [st EXCEPT !.stacks[st.sid] = SubSeq(@, 1, Len(@) - 1), !.npop = @ + 1]

\* the interpreter after pop()
pop(st) ==
    IF Stopped(st) THEN st
    ELSE IF CurStack(st) = <<>> \/ st.sid \in st.sticky
         THEN [st EXCEPT !.npop = @ + 1]
    ELSE [st EXCEPT !.stacks[st.sid] = SubSeq(@, 1, Len(@) - 1), !.npop = @ + 1]

\* y, x = ... : the coordinates the curve returns, as (x, y)
Swapped(c) == [err |-> c.err, val |-> <<c.val[2], c.val[1]>>]

CoordAfter(dist, st) ==
    IF dist.err # "" THEN [err |-> dist.err, val |-> <<0, 0>>]
    ELSE Swapped(coordinates_from_distance(dist.val + st.dir, st.p))

\* a curve that closes: the index taken modulo its length
NextCoordWrap(st) ==
    Swapped(coordinates_from_distance(
        (distance_from_coordinates(<<st.y, st.x>>, st.p).val + st.dir)
            % Pow2(2 * st.p), st.p))

\* the cell handed to the curve as (x, y)
NextCoordUnswapped(st) ==
    CoordAfter(distance_from_coordinates(<<st.x, st.y>>, st.p), st)

\* next_coord(): (x, y) of the cell after this one along the curve
next_coord(st) ==
    CoordAfter(distance_from_coordinates(<<st.y, st.x>>, st.p), st)

\* get_command(): the character of the cell, a space outside the file
get_command(st) ==
    IF st.x + 1 \in 1..Len(st.code) /\ st.y + 1 \in 1..Len(st.code[st.x + 1])
    THEN st.code[st.x + 1][st.y + 1]
    ELSE " "

\* self.code[self.x][self.y] = c
SetCell(st, c) ==
    IF Stopped(st) THEN st
    ELSE IF st.x + 1 \in 1..Len(st.code) /\ st.y + 1 \in 1..Len(st.code[st.x + 1])
         THEN [st EXCEPT !.code[st.x + 1][st.y + 1] = c]
    ELSE Raise(st, "IndexError")

\* the end of move(): the bounds check and the assignment
MoveTo(st, nc) ==
    IF nc.err = "ValueError" THEN Exit(st)
    ELSE IF nc.val[1] >= Pow2(st.p) \/ nc.val[2] >= Pow2(st.p)
            \/ nc.val[1] < 0 \/ nc.val[2] < 0
         THEN Exit(st)
    ELSE [st EXCEPT !.x = nc.val[1], !.y = nc.val[2]]

\* move(coords); coords = <<>> stands for None
move(st, coords) ==
    IF Stopped(st) THEN st
    ELSE MoveTo(st, IF coords # <<>> THEN [err |-> "", val |-> coords]
                    ELSE IF st.dir = -1 /\ st.x = 0 /\ st.y = 0
                         THEN [err |-> "", val |-> <<-1, -1>>]
                    ELSE next_coord(st))


(***************************************************************************)
(* The operations of the dispatch table, each named as its method.         *)
(***************************************************************************)
DigitVal(c) ==
    CASE c = "0" -> 0 [] c = "1" -> 1 [] c = "2" -> 2 [] c = "3" -> 3
      [] c = "4" -> 4 [] c = "5" -> 5 [] c = "6" -> 6 [] c = "7" -> 7
      [] c = "8" -> 8 [] c = "9" -> 9

Digits == {"0", "1", "2", "3", "4", "5", "6", "7", "8", "9"}

\* the side length self.s
Side(st) == Pow2(st.p)

\* a nop that forgets to move
NopStay(st, cmd) == st

_nop(st, cmd) == move(st, <<>>)

\* a step to the left that is not taken modulo the side
LeftNoWrap(st, cmd) ==
    LET s1 == IF cmd = "W" THEN SetCell(st, "N") ELSE st
    IN  move(s1, <<st.x, st.y - 1>>)

_left(st, cmd) ==
    LET s1 == IF cmd = "W" THEN SetCell(st, "N") ELSE st
    IN  move(s1, <<st.x, (st.y - 1) % Side(st)>>)

_right(st, cmd) ==
    LET s1 == IF cmd = "E" THEN SetCell(st, "S") ELSE st
    IN  move(s1, <<st.x, (st.y + 1) % Side(st)>>)

_down(st, cmd) ==
    LET s1 == IF cmd = "S" THEN SetCell(st, "W") ELSE st
    IN  move(s1, <<(st.x - 1) % Side(st), st.y>>)

_up(st, cmd) ==
    LET s1 == IF cmd = "N" THEN SetCell(st, "E") ELSE st
    IN  move(s1, <<(st.x + 1) % Side(st), st.y>>)

\* int(cmd) of a character that is no digit raises ValueError
_numeric(st, cmd) ==
    IF cmd \in Digits THEN move(push(st, PyInt(DigitVal(cmd))), <<>>)
    ELSE Raise(st, "ValueError")

_plus(st, cmd) ==
    LET xv == popped(st)
        s1 == pop(st)
        yv == popped(s1)
        s2 == pop(s1)
        r  == PyAdd(yv, xv)
    IN  IF r.err = "" THEN move(push(s2, r.val), <<>>)
        ELSE RaiseOf(s2, r, "CodeException")

_pow__find_char(st, cmd) ==
    LET xv == popped(st)
        s1 == pop(st)
        yv == popped(s1)
        s2 == pop(s1)
    IN  IF IsNumber(yv)
        THEN LET r == PyPow(yv, xv)
             IN  IF r.err = "" THEN move(push(s2, r.val), <<>>)
                 ELSE IF r.err = "TypeError" THEN Raise(s2, "CodeException")
                 ELSE RaiseOf(s2, r, r.err)
        ELSE LET r == PyIndex(yv, xv)
             IN  IF r.err = "" THEN move(push(s2, r.val), <<>>)
                 ELSE IF r.err = "IndexError" THEN Raise(s2, "CodeException")
                 ELSE RaiseOf(s2, r, r.err)

\* - popping its second operand before it looks at the first
MinusPopsBoth(st, cmd) ==
    LET xv == popped(st)
        s1 == pop(st)
        yv == popped(s1)
        s2 == pop(s1)
        r  == PySub(yv, xv)
    IN  IF IsNumber(xv)
        THEN IF r.err = "" THEN move(push(s2, r.val), <<>>)
             ELSE RaiseOf(s2, r, "CodeException")
        ELSE move(pushiter(s2, Reverse([i \in 1..Len(SplitWS(xv.s, <<>>)) |->
                                            PyStr(SplitWS(xv.s, <<>>)[i])])), <<>>)

_minus__split1(st, cmd) ==
    LET xv == popped(st)
        s1 == pop(st)
    IN  IF IsNumber(xv)
        THEN LET yv == popped(s1)
                 s2 == pop(s1)
                 r  == PySub(yv, xv)
             IN  IF r.err = "" THEN move(push(s2, r.val), <<>>)
                 ELSE RaiseOf(s2, r, "CodeException")
        ELSE move(pushiter(s1, Reverse([i \in 1..Len(SplitWS(xv.s, <<>>)) |->
                                            PyStr(SplitWS(xv.s, <<>>)[i])])), <<>>)

_times(st, cmd) ==
    LET xv == popped(st)
        s1 == pop(st)
        yv == popped(s1)
        s2 == pop(s1)
        r  == PyMul(yv, xv)
    IN  IF r.err = "" THEN move(push(s2, r.val), <<>>)
        ELSE RaiseOf(s2, r, "CodeException")

\* re.sub(y, z, x) needs three strings (TypeError otherwise)
_mod__re_replace(st, cmd) ==
    LET xv == popped(st)
        s1 == pop(st)
        yv == popped(s1)
        s2 == pop(s1)
    IN  IF IsNumber(xv)
        THEN LET r == PyMod(yv, xv)
             IN  IF r.err = "" THEN move(push(s2, r.val), <<>>)
                 ELSE IF r.err = "TypeError" THEN Raise(s2, "CodeException")
                 ELSE RaiseOf(s2, r, r.err)
        ELSE LET zv == popped(s2)
                 s3 == pop(s2)
             IN  IF yv.t # "str" \/ zv.t # "str" THEN Raise(s3, "TypeError")
                 ELSE IF ~IsPlain(yv.s) \/ ~IsPlain(zv.s) THEN Unmodelled(s3)
                 ELSE move(push(s3, PyStr(ReSub(yv.s, zv.s, xv.s))), <<>>)

_div__re_matches(st, cmd) ==
    LET xv == popped(st)
        s1 == pop(st)
        yv == popped(s1)
        s2 == pop(s1)
    IN  IF IsNumber(xv)
        THEN LET r == PyFloorDiv(yv, xv)
             IN  IF r.err = "" THEN move(push(s2, r.val), <<>>)
                 ELSE RaiseOf(s2, r, "CodeException")
        ELSE IF yv.t # "str" THEN Raise(s2, "TypeError")
        ELSE IF ~IsPlain(yv.s) THEN Unmodelled(s2)
        ELSE move(push(s2, PyInt(CountMatches(yv.s, xv.s))), <<>>)

\* y.split(x): AttributeError when y is no string, ValueError for an empty x
_floatdiv__split2(st, cmd) ==
    LET xv == popped(st)
        s1 == pop(st)
        yv == popped(s1)
        s2 == pop(s1)
    IN  IF IsNumber(xv)
        THEN LET r == PyTrueDiv(yv, xv)
             IN  IF r.err = "" THEN move(push(s2, r.val), <<>>)
                 ELSE RaiseOf(s2, r, "CodeException")
        ELSE IF yv.t # "str" THEN Raise(s2, "AttributeError")
        ELSE IF xv.s = <<>> THEN Raise(s2, "ValueError")
        ELSE move(pushiter(s2, Reverse([i \in 1..Len(SplitOn(yv.s, xv.s, <<>>)) |->
                                            PyStr(SplitOn(yv.s, xv.s, <<>>)[i])])), <<>>)

_sticky_mode_on(st, cmd) ==
    move([st EXCEPT !.sticky = @ \cup {st.sid}], <<>>)

\* set.remove raises KeyError for a missing element
_sticky_mode_off(st, cmd) ==
    IF st.sid \in st.sticky
    THEN move([st EXCEPT !.sticky = @ \ {st.sid}], <<>>)
    ELSE Raise(st, "KeyError")

_read(st, cmd) == move(push(st, PyStr(st.env.line)), <<>>)

\* an s that pushes the two values back as they were
SwapKeeps(st, cmd) ==
    LET xv == popped(st)
        s1 == pop(st)
        yv == popped(s1)
        s2 == pop(s1)
    IN  move(push(push(s2, yv), xv), <<>>)

_swap(st, cmd) ==
    LET xv == popped(st)
        s1 == pop(st)
        yv == popped(s1)
        s2 == pop(s1)
    IN  move(push(push(s2, xv), yv), <<>>)

_duplicate(st, cmd) ==
    LET xv == popped(st)
    IN  move(push(push(pop(st), xv), xv), <<>>)

_drop(st, cmd) == move(pop(st), <<>>)

_next_stack(st, cmd) == move([st EXCEPT !.sid = @ + 1], <<>>)

_prev_stack(st, cmd) == move([st EXCEPT !.sid = @ - 1], <<>>)

_negation(st, cmd) ==
    move(push(pop(st), PyBool(~Truthy(popped(st)))), <<>>)

_die(st, cmd) == Exit(st)

\* a mirror that counts the columns from 1
MirrorOffByOne(st, cmd) ==
    IF Truthy(popped(st))
    THEN move(pop(st), <<st.x, Pow2(st.p) - st.y>>)
    ELSE move(pop(st), <<>>)

_mirror_h(st, cmd) ==
    IF Truthy(popped(st))
    THEN move(pop(st), <<st.x, Pow2(st.p) - (st.y + 1)>>)
    ELSE move(pop(st), <<>>)

_mirror_v(st, cmd) ==
    IF Truthy(popped(st))
    THEN move(pop(st), <<Pow2(st.p) - (st.x + 1), st.y>>)
    ELSE move(pop(st), <<>>)

_mirror_vh(st, cmd) ==
    IF Truthy(popped(st))
    THEN move(pop(st), <<Pow2(st.p) - (st.x + 1), Pow2(st.p) - (st.y + 1)>>)
    ELSE move(pop(st), <<>>)

_reverse(st, cmd) == move([st EXCEPT !.dir = @ * (-1)], <<>>)

_string_literal(st, cmd) == move([st EXCEPT !.mode = "string"], <<>>)

_char_literal(st, cmd) == move([st EXCEPT !.mode = "char"], <<>>)

_escape(st, cmd) == move([st EXCEPT !.mode = "escape"], <<>>)

_cond_escape(st, cmd) ==
    LET s1 == pop(st)
    IN  move(IF ~Truthy(popped(st)) THEN [s1 EXCEPT !.mode = "escape"] ELSE s1, <<>>)


\* choice("v^<>") picks st.env.choice; the method is called with cmd itself
\* and the move() that follows the call
_random_direction(st, cmd) ==
    move(CASE st.env.choice = "v" -> _down(st, cmd)
           [] st.env.choice = "^" -> _up(st, cmd)
           [] st.env.choice = "<" -> _left(st, cmd)
           [] st.env.choice = ">" -> _right(st, cmd),
         <<>>)

\* a restart that does not look at the direction
RestartIgnoresDir(st, cmd) == [st EXCEPT !.x = 0, !.y = 0]

_restart(st, cmd) ==
    IF st.dir = 1 THEN [st EXCEPT !.x = 0, !.y = 0]
    ELSE [st EXCEPT !.x = 0, !.y = Pow2(st.p) - 1]

\* the last cell taken one column too far
FinalizeOffByOne(st, cmd) ==
    IF st.dir = -1 THEN [st EXCEPT !.x = 0, !.y = 0]
    ELSE [st EXCEPT !.x = 0, !.y = Pow2(st.p)]

_finalize(st, cmd) ==
    IF st.dir = -1 THEN [st EXCEPT !.x = 0, !.y = 0]
    ELSE [st EXCEPT !.x = 0, !.y = Pow2(st.p) - 1]

\* the curve call of _jump and _goto: a string makes the arithmetic or the
\* comparison fail (TypeError), a float the binary formatting (ValueError)
Teleport(st, h) ==
    LET c == coordinates_from_distance(h, st.p)
    IN  IF c.err # "" THEN Raise(st, c.err)
        ELSE [st EXCEPT !.x = c.val[2], !.y = c.val[1]]

\* a jump that counts forwards whatever the direction
JumpIgnoresDir(st, cmd) ==
    LET steps == popped(st)
        s1    == pop(st)
        dist  == distance_from_coordinates(<<st.y, st.x>>, st.p)
    IN  IF dist.err # "" THEN Raise(s1, dist.err)
        ELSE IF steps.t = "str" THEN Raise(s1, "TypeError")
        ELSE IF steps.t = "float" THEN Raise(s1, "ValueError")
        ELSE Teleport(s1, dist.val + steps.n)

_jump(st, cmd) ==
    LET steps == popped(st)
        s1    == pop(st)
        dist  == distance_from_coordinates(<<st.y, st.x>>, st.p)
    IN  IF dist.err # "" THEN Raise(s1, dist.err)
        ELSE IF steps.t = "str" THEN Raise(s1, "TypeError")
        ELSE IF steps.t = "float" THEN Raise(s1, "ValueError")
        ELSE Teleport(s1, dist.val + st.dir * steps.n)

_goto(st, cmd) ==
    LET distance == popped(st)
        s1       == pop(st)
    IN  IF distance.t = "str" THEN Raise(s1, "TypeError")
        ELSE IF distance.t = "float" THEN Raise(s1, "ValueError")
        ELSE Teleport(s1, distance.n)

\* a mark taken after the move
MarkAfterMove(st, cmd) ==
    move([st EXCEPT !.catch_mark = CoordAfter(
              distance_from_coordinates(<<st.y, st.x>>, st.p), st).val], <<>>)

_catch_mark(st, cmd) ==
    move([st EXCEPT !.catch_mark = <<st.x, st.y>>], <<>>)

_raise(st, cmd) == Raise(st, "CodeException")

_assert(st, cmd) ==
    IF Truthy(popped(st)) THEN Raise(pop(st), "CodeException")
    ELSE move(pop(st), <<>>)

\* print(self.pop(), ...): standard output is no part of the state
_print(st, cmd) == move(pop(st), <<>>)

\* a "}" that stays on the neighbouring stack
MoveNextStays(st, cmd) ==
    LET xv == popped(st)
        s1 == pop(st)
    IN  move(push(IF Stopped(s1) THEN s1 ELSE [s1 EXCEPT !.sid = @ + 1], xv), <<>>)

\* self.sid += k
SidPlus(st, k) == IF Stopped(st) THEN st ELSE [st EXCEPT !.sid = @ + k]

_move_next_stack(st, cmd) ==
    LET xv == popped(st)
    IN  move(SidPlus(push(SidPlus(pop(st), 1), xv), -1), <<>>)

_move_prev_stack(st, cmd) ==
    LET xv == popped(st)
    IN  move(SidPlus(push(SidPlus(pop(st), -1), xv), 1), <<>>)

_move_go_next_stack(st, cmd) ==
    LET xv == popped(st)
    IN  move(push(SidPlus(pop(st), 1), xv), <<>>)

_move_go_prev_stack(st, cmd) ==
    LET xv == popped(st)
    IN  move(push(SidPlus(pop(st), -1), xv), <<>>)

\* str(n) of an integer
DigitChar(k) ==
    CASE k = 0 -> "0" [] k = 1 -> "1" [] k = 2 -> "2" [] k = 3 -> "3"
      [] k = 4 -> "4" [] k = 5 -> "5" [] k = 6 -> "6" [] k = 7 -> "7"
      [] k = 8 -> "8" [] k = 9 -> "9"

RECURSIVE Decimal(_)
Decimal(n) ==
    IF n < 0 THEN <<"-">> \o Decimal(-n)
    ELSE IF n < 10 THEN <<DigitChar(n)>>
    ELSE Decimal(n \div 10) \o <<DigitChar(n % 10)>>

\* str(v): the text of a float is outside this model
PyStrOf(v) ==
    CASE v.t = "str"   -> Ok(PyStr(v.s))
      [] v.t = "int"   -> Ok(PyStr(Decimal(v.n)))
      [] v.t = "bool"  -> Ok(PyStr(IF v.n = 1 THEN <<"T", "r", "u", "e">>
                                   ELSE <<"F", "a", "l", "s", "e">>))
      [] OTHER         -> Err("unmodelled")

\* a join that puts the text of the lower value first
JoinLowerFirst(st, cmd) ==
    LET xv == popped(st)
        s1 == pop(st)
        yv == popped(s1)
        s2 == pop(s1)
        xs == PyStrOf(xv)
        ys == PyStrOf(yv)
    IN  IF xs.err # "" \/ ys.err # "" THEN Unmodelled(s2)
        ELSE move(push(s2, PyStr(ys.val.s \o xs.val.s)), <<>>)

\* x, y = self.pop(), self.pop(); self.push(str(x) + str(y))
_join(st, cmd) ==
    LET xv == popped(st)
        s1 == pop(st)
        yv == popped(s1)
        s2 == pop(s1)
        xs == PyStrOf(xv)
        ys == PyStrOf(yv)
    IN  IF xs.err # "" \/ ys.err # "" THEN Unmodelled(s2)
        ELSE move(push(s2, PyStr(xs.val.s \o ys.val.s)), <<>>)

\* the six fields [:6] of time.localtime() that are pushed
ClockFields == 6

\* a reading of the clock whose slice is not reversed
DatetimeForward(st, cmd) ==
    move(pushiter(st, [i \in 1..ClockFields |-> PyInt(st.env.time[i])]), <<>>)

\* self.pushiter([*time.localtime()][:6][::-1])
_get_datetime(st, cmd) ==
    move(pushiter(st, Reverse([i \in 1..ClockFields |-> PyInt(st.env.time[i])])), <<>>)

\* list(range(start, stop, step)) for a step of 1 or -1
PyRange(start, stop, step) ==
    IF step = 1 THEN [i \in 1..(stop - start) |-> PyInt(start + i - 1)]
    ELSE [i \in 1..(start - stop) |-> PyInt(start - i + 1)]

\* a range pushed in reversed order
RangeDownReversed(st, cmd) ==
    LET val  == popped(st)
        s1   == pop(st)
        stp  == IF val.n > 0 THEN -1 ELSE 1
    IN  IF ~IsInt(val) \/ val.n = 0 THEN Raise(s1, "CodeException")
        ELSE move(pushiter(s1, Reverse(PyRange(val.n, 0, stp))), <<>>)

_range_down(st, cmd) ==
    LET val  == popped(st)
        s1   == pop(st)
        stp  == IF val.n > 0 THEN -1 ELSE 1
    IN  IF ~IsInt(val) \/ val.n = 0 THEN Raise(s1, "CodeException")
        ELSE move(pushiter(s1, PyRange(val.n, 0, stp)), <<>>)

_range_up(st, cmd) ==
    LET val  == popped(st)
        s1   == pop(st)
        stp  == IF val.n > 0 THEN 1 ELSE -1
    IN  IF ~IsInt(val) \/ val.n = 0 THEN Raise(s1, "CodeException")
        ELSE move(pushiter(s1, PyRange(stp, val.n + stp, stp)), <<>>)

\* an explode that pushes the characters in their order
ExplodeForward(st, cmd) ==
    LET xv == popped(st)
        s1 == pop(st)
    IN  IF xv.t # "str" THEN Raise(s1, "TypeError")
        ELSE move(pushiter(s1, [i \in 1..Len(xv.s) |-> PyStr(<<xv.s[i]>>)]), <<>>)

\* extend(reversed(x)): reversed() of a number is a TypeError
_explode_string(st, cmd) ==
    LET xv == popped(st)
        s1 == pop(st)
    IN  IF xv.t # "str" THEN Raise(s1, "TypeError")
        ELSE move(pushiter(s1, Reverse([i \in 1..Len(xv.s) |-> PyStr(<<xv.s[i]>>)])), <<>>)

\* "".join(parts) for a list of strings
RECURSIVE Concat(_)
Concat(parts) ==
    IF parts = <<>> THEN <<>> ELSE Head(parts).s \o Concat(Tail(parts))

\* "".join(map(str, reversed(self.stacks[self.sid]))), assigned as the stack
_implode_string(st, cmd) ==
    LET stack == CurStack(st)
        texts == [i \in 1..Len(stack) |-> PyStrOf(stack[i])]
    IN  IF st.sid \notin SidRange \/ \E i \in 1..Len(stack) : texts[i].err # ""
        THEN Unmodelled(st)
        ELSE move([st EXCEPT !.stacks[st.sid] =
                       <<PyStr(Concat(Reverse([i \in 1..Len(stack) |-> texts[i].val])))>>], <<>>)


(***************************************************************************)
(* The dispatch table self.commands: the method of a character.  A         *)
(* character without an entry is a nop; of the characters with an entry,   *)
(* those whose method is not modelled here take the step out of the model. *)
(* A character is a one-character string; the characters that a string of  *)
(* this language cannot hold have names: "backtick" (grave accent),        *)
(* "section" (section sign), "tm" (trade mark sign), "tau" (Greek tau),    *)
(* "euro", "pound" and "yen" (the currency signs), and, without an entry   *)
(* in the table, "eacute" (e with acute accent).                           *)
(***************************************************************************)
\* characters that have no entry in the table
NoEntry == {"\t", "eacute"}

\* a table read with self.commands[cmd]
DefaultRaises(st, cmd) == Raise(st, "KeyError")

\* the default of self.commands.get(cmd, Aceto._nop)
Default(st, cmd) == _nop(st, cmd)

DispatchBase(st, c, cmd) ==
    CASE c = " "            -> _nop(st, cmd)
      [] c \in NoEntry      -> Default(st, cmd)
      [] c \in {"<", "W"}   -> _left(st, cmd)
      [] c \in {">", "E"}   -> _right(st, cmd)
      [] c \in {"v", "S"}   -> _down(st, cmd)
      [] c \in {"^", "N"}   -> _up(st, cmd)
      [] c \in Digits       -> _numeric(st, cmd)
      [] c = "+"            -> _plus(st, cmd)
      [] c = "F"            -> _pow__find_char(st, cmd)
      [] c = "-"            -> _minus__split1(st, cmd)
      [] c = "*"            -> _times(st, cmd)
      [] c = "%"            -> _mod__re_replace(st, cmd)
      [] c = "/"            -> _div__re_matches(st, cmd)
      [] c = ":"            -> _floatdiv__split2(st, cmd)
      [] c = "k"            -> _sticky_mode_on(st, cmd)
      [] c = "K"            -> _sticky_mode_off(st, cmd)
      [] c = "r"            -> _read(st, cmd)
      [] c = "s"            -> _swap(st, cmd)
      [] c = "d"            -> _duplicate(st, cmd)
      [] c = "x"            -> _drop(st, cmd)
      [] c = ")"            -> _next_stack(st, cmd)
      [] c = "("            -> _prev_stack(st, cmd)
      [] c = "!"            -> _negation(st, cmd)
      [] c = "X"            -> _die(st, cmd)
      [] c = "|"            -> _mirror_h(st, cmd)
      [] c = "_"            -> _mirror_v(st, cmd)
      [] c = "#"            -> _mirror_vh(st, cmd)
      [] c = "u"            -> _reverse(st, cmd)
      [] c = "\""           -> _string_literal(st, cmd)
      [] c = "'"            -> _char_literal(st, cmd)
      [] c = "\\"           -> _escape(st, cmd)
      [] c = "backtick"     -> _cond_escape(st, cmd)
      [] c = "?"            -> _random_direction(st, cmd)
      [] c = "O"            -> _restart(st, cmd)
      [] c = ";"            -> _finalize(st, cmd)
      [] c = "j"            -> _jump(st, cmd)
      [] c = "section"      -> _goto(st, cmd)
      [] c = "$"            -> _assert(st, cmd)
      [] c = "@"            -> _catch_mark(st, cmd)
      [] c = "&"            -> _raise(st, cmd)
      [] c = "p"            -> _print(st, cmd)
      [] c = "}"            -> _move_next_stack(st, cmd)
      [] c = "{"            -> _move_prev_stack(st, cmd)
      [] c = "]"            -> _move_go_next_stack(st, cmd)
      [] c = "["            -> _move_go_prev_stack(st, cmd)
      [] c = "J"            -> _join(st, cmd)
      [] c \in {"tm", "tau"} -> _get_datetime(st, cmd)
      [] c = "z"            -> _range_down(st, cmd)
      [] c = "Z"            -> _range_up(st, cmd)
      [] c = "euro"         -> _explode_string(st, cmd)
      [] c \in {"pound", "yen"} -> _implode_string(st, cmd)
      [] OTHER              -> Unmodelled(st)

\* "." looks previous_cmd up and calls its method with previous_cmd; when
\* previous_cmd is "." itself the calls never end: RecursionError
_repeat(st, cmd) ==
    IF st.previous_cmd = "." THEN Raise(st, "RecursionError")
    ELSE DispatchBase(st, st.previous_cmd, st.previous_cmd)

Dispatch(st, cmd) ==
    IF cmd = "." THEN _repeat(st, cmd) ELSE DispatchBase(st, cmd, cmd)

(***************************************************************************)
(* step() and the sub-routines of the modes.                               *)
(***************************************************************************)
\* a memo written whether or not the method returned
SetPreviousAlways(st, cmd) == [st EXCEPT !.previous_cmd = cmd]

\* self.previous_cmd = cmd, reached when the method returned
SetPrevious(st, cmd) ==
    IF Stopped(st) THEN st ELSE [st EXCEPT !.previous_cmd = cmd]

step_command_mode(st, cmd) == SetPrevious(Dispatch(st, cmd), cmd)

\* a string mode whose quote closes the string after a backslash too
StringClosesEscaped(st, cmd) ==
    move(        IF cmd = "\""
              THEN [push(st, PyStr(st.buf)) EXCEPT !.buf = <<>>, !.mode = "command"]
              ELSE IF cmd = "\\" /\ st.mode = "string"
                   THEN [st EXCEPT !.mode = "string-escape"]
              ELSE IF st.mode = "string-escape" /\ cmd \in {"n", "t"}
                   THEN [st EXCEPT !.buf = Append(@, IF cmd = "n" THEN "\n" ELSE "\t"),
                                   !.mode = "string"]
              ELSE [st EXCEPT !.buf = Append(@, cmd), !.mode = "string"],
         <<>>)

\* a string mode whose closing quote keeps the buffer
StringKeepsBuf(st, cmd) ==
    move(        IF cmd = "\"" /\ st.mode = "string"
              THEN [push(st, PyStr(st.buf)) EXCEPT !.mode = "command"]
              ELSE IF cmd = "\\" /\ st.mode = "string"
                   THEN [st EXCEPT !.mode = "string-escape"]
              ELSE IF st.mode = "string-escape" /\ cmd \in {"n", "t"}
                   THEN [st EXCEPT !.buf = Append(@, IF cmd = "n" THEN "\n" ELSE "\t"),
                                   !.mode = "string"]
              ELSE [st EXCEPT !.buf = Append(@, cmd), !.mode = "string"],
         <<>>)

step_string_mode(st, cmd) ==
    move(        IF cmd = "\"" /\ st.mode = "string"
              THEN [push(st, PyStr(st.buf)) EXCEPT !.buf = <<>>, !.mode = "command"]
              ELSE IF cmd = "\\" /\ st.mode = "string"
                   THEN [st EXCEPT !.mode = "string-escape"]
              ELSE IF st.mode = "string-escape" /\ cmd \in {"n", "t"}
                   THEN [st EXCEPT !.buf = Append(@, IF cmd = "n" THEN "\n" ELSE "\t"),
                                   !.mode = "string"]
              ELSE [st EXCEPT !.buf = Append(@, cmd), !.mode = "string"],
         <<>>)

\* a char mode that takes the backslash for the character
CharTakesBackslash(st, cmd) ==
    move([push(st, PyStr(<<cmd>>)) EXCEPT !.mode = "command"], <<>>)

step_char_mode(st, cmd) ==
    move(        IF cmd = "\\" /\ st.mode = "char"
              THEN [st EXCEPT !.mode = "char-escape"]
              ELSE IF st.mode = "char-escape" /\ cmd \in {"n", "t"}
                   THEN [push(st, PyStr(<<IF cmd = "n" THEN "\n" ELSE "\t">>))
                            EXCEPT !.mode = "command"]
              ELSE [push(st, PyStr(<<cmd>>)) EXCEPT !.mode = "command"],
         <<>>)

SetMode(st, m) == IF Stopped(st) THEN st ELSE [st EXCEPT !.mode = m]

\* an escape mode that is never left
EscapeStays(st, cmd) == move(st, <<>>)

step_escape_mode(st, cmd) == SetMode(move(st, <<>>), "command")

step(st) ==
    LET cmd == get_command(st)
    IN  CASE st.mode = "command"                     -> step_command_mode(st, cmd)
          [] st.mode \in {"string", "string-escape"} -> step_string_mode(st, cmd)
          [] st.mode \in {"char", "char-escape"}     -> step_char_mode(st, cmd)
          [] st.mode = "escape"                      -> step_escape_mode(st, cmd)
          [] OTHER                                   -> Raise(st, "CodeException")


(***************************************************************************)
(* Programs.  A program text is laid out along the curve of a given order, *)
(* as the editor does, and saved as a file of 2^order lines without        *)
(* trailing spaces; load_code reads that file.                             *)
(***************************************************************************)
RECURSIVE SeqsUpTo(_, _)
SeqsUpTo(S, n) ==
    IF n = 0 THEN {<<>>}
    ELSE LET shorter == SeqsUpTo(S, n - 1)
         IN  shorter \cup {Append(q, c) : q \in {r \in shorter : Len(r) = n - 1}, c \in S}

\* the cell (x, y) of curve index i
CellOf(i, order) ==
    LET c == coordinates_from_distance(i, order).val IN <<c[2], c[1]>>

SetMax(S) == CHOOSE m \in S : \A k \in S : k <= m

FileOf(txt, order) ==
    LET idx(xx, yy) == {i \in 0..(Len(txt) - 1) : CellOf(i, order) = <<xx, yy>>}
        width(xx) ==
            LET ys == {CellOf(i, order)[2] : i \in {k \in 0..(Len(txt) - 1) :
                                                      CellOf(k, order)[1] = xx}}
            IN  IF ys = {} THEN 0 ELSE SetMax(ys) + 1
        row(xx) == [j \in 1..width(xx) |->
                       IF idx(xx, j - 1) = {} THEN " "
                       ELSE txt[(CHOOSE i \in idx(xx, j - 1) : TRUE) + 1]]
    IN  Reverse([r \in 1..Pow2(order) |-> row(r - 1)])

\* the texts of at least two characters (so that p >= 1) that fit the curve
Texts(alphabet, order) ==
    {q \in SeqsUpTo(alphabet, MaxLen) : Len(q) >= 2 /\ Len(q) <= Pow2(2 * order)}

Programs(alphabet, orders) ==
    UNION {{FileOf(t, o) : t \in Texts(alphabet, o)} : o \in orders}

\* the -e flag matters to the programs that can set a mark
Flags(alphabet) == IF "@" \in alphabet THEN BOOLEAN ELSE {FALSE}

\* the lines input() may return
InputChars == {"a", " "}

Lines == SeqsUpTo(InputChars, MaxLine)

(***************************************************************************)
(* The state of the run.  Beside the fields of the interpreter:            *)
(*   status  "running", "halted" (sys.exit(): success) or "error" (the     *)
(*           exception left run());                                        *)
(*   last    the step just taken: the character read, the interpreter      *)
(*           before it, the exception raised, whether it was caught, and   *)
(*           the calls of pop() and push() it made;                        *)
(*   nexec   the number of steps taken, counted up to 4^p + 1.             *)
(***************************************************************************)
\* what time.localtime() may return: year, month, day, hour, minute, second
Clock == {<<1970, 1, 1, 0, 0, 0>>, <<2026, 11, 2, 9, 5, 7>>}

NoEnv == [line |-> <<>>, choice |-> "v", time |-> <<1970, 1, 1, 0, 0, 0>>]

Cur(env) ==
    [code |-> code, p |-> p, x |-> x, y |-> y, dir |-> dir, mode |-> mode,
     buf |-> buf, previous_cmd |-> previous_cmd, catch_mark |-> catch_mark,
     stacks |-> stacks, sticky |-> sticky, sid |-> sid, quick |-> quick,
     env |-> env, exc |-> "", exited |-> FALSE, oob |-> FALSE,
     npop |-> 0, npush |-> 0]

\* the editor is not running
NoKey == [op |-> "", string |-> <<>>, cursor |-> 0, exc |-> ""]

NoEditor ==
    /\ string = <<>> /\ cursor = 0 /\ text = <<>> /\ saved = <<>>
    /\ edlast = NoKey

\* Aceto.__init__ and load_code(file), for a file and the -e flag
InitOf(files, flags) ==
    \E ldfile \in files, ae \in flags :
        /\ NoEditor
        /\ code = load_code_hilbert(ldfile).code
        /\ p = load_code_hilbert(ldfile).p
        /\ x = 0 /\ y = 0
        /\ dir = 1
        /\ mode = "command"
        /\ buf = <<>>
        /\ previous_cmd = " "
        /\ catch_mark = <<>>
        /\ stacks = [i \in SidRange |-> <<>>]
        /\ sticky = {}
        /\ sid = 0
        /\ quick = PyStr(<<>>)
        /\ allerr = ae
        /\ status = "running"
        /\ nexec = 0
        /\ last = [cmd |-> "", pre |-> [Cur(NoEnv) EXCEPT !.code = load_code_hilbert(ldfile).code,
                       !.p = load_code_hilbert(ldfile).p, !.x = 0, !.y = 0, !.dir = 1,
                       !.mode = "command", !.buf = <<>>, !.previous_cmd = " ",
                       !.catch_mark = <<>>, !.stacks = [i \in SidRange |-> <<>>],
                       !.sticky = {}, !.sid = 0, !.quick = PyStr(<<>>)],
                   exc |-> "", caught |-> FALSE, npop |-> 0, npush |-> 0]

\* the values of this model: the numbers up to MaxInt and the years of the
\* clock, the strings up to MaxStr
ValueInBounds(v) ==
    /\ Abs(v.n) <= MaxInt \/ v.n \in {c[1] : c \in Clock}
    /\ v.d <= MaxInt
    /\ Len(v.s) <= MaxStr

\* whether the program reads the clock
ReadsClock(st) ==
    \E i \in 1..Len(st.code) : \E j \in 1..Len(st.code[i]) :
        st.code[i][j] \in {"tm", "tau"}

\* the longest stack of this model; one reading of the clock fits
StackRoom(st) ==
    IF ReadsClock(st) THEN Max2(MaxStack, ClockFields) ELSE MaxStack

InBounds(st) ==
    /\ ~st.oob
    /\ st.sid \in SidRange
    /\ Len(st.buf) <= MaxStr
    /\ ValueInBounds(st.quick)
    /\ \A i \in SidRange :
          /\ Len(st.stacks[i]) <= StackRoom(st)
          /\ \A k \in 1..Len(st.stacks[i]) : ValueInBounds(st.stacks[i][k])

\* the character whose method a command-mode step calls
Effective(st) ==
    LET cmd == get_command(st)
    IN  IF st.mode # "command" THEN " "
        ELSE IF cmd = "." THEN st.previous_cmd ELSE cmd

\* what the environment may supply to the step
Envs(st) ==
    IF Effective(st) = "r" THEN {[NoEnv EXCEPT !.line = l] : l \in Lines}
    ELSE IF Effective(st) = "?"
         THEN {[NoEnv EXCEPT !.choice = c] : c \in {"v", "^", "<", ">"}}
    ELSE IF Effective(st) \in {"tm", "tau"}
         THEN {[NoEnv EXCEPT !.time = c] : c \in Clock}
    ELSE {NoEnv}

(***************************************************************************)
(* run(): one turn of its loop.  step() is called; sys.exit() ends the run *)
(* (SystemExit is no Exception and passes the handler); an Exception is    *)
(* caught, and the program counter set to the mark, when a mark is set and *)
(* allerr is off, and leaves run() otherwise.                              *)
(***************************************************************************)
\* a handler that forgets the -e flag
CaughtWithFlag(r, ae) == r.exc # "" /\ r.catch_mark # <<>>

\* a handler written as except CodeException
CaughtCodeException(r, ae) ==
    r.exc = "CodeException" /\ r.catch_mark # <<>> /\ ~ae

\* except Exception ... if self.catch_mark is not None and not self.allerr
Caught(r, ae) == r.exc # "" /\ r.catch_mark # <<>> /\ ~ae

run ==
    /\ status = "running"
    /\ \E env \in Envs(Cur(NoEnv)) :
       \E r \in {step(Cur(env))} :
       \E caught \in {Caught(r, allerr)} :
             /\ InBounds(r)
             /\ code' = r.code
             /\ x' = IF caught THEN r.catch_mark[1] ELSE r.x
             /\ y' = IF caught THEN r.catch_mark[2] ELSE r.y
             /\ dir' = r.dir
             /\ mode' = r.mode
             /\ buf' = r.buf
             /\ previous_cmd' = r.previous_cmd
             /\ catch_mark' = r.catch_mark
             /\ stacks' = r.stacks
             /\ sticky' = r.sticky
             /\ sid' = r.sid
             /\ quick' = r.quick
             /\ status' = IF r.exited THEN "halted"
                          ELSE IF r.exc # "" /\ ~caught THEN "error"
                          ELSE "running"
             /\ last' = [cmd |-> get_command(Cur(env)), pre |-> Cur(NoEnv),
                         exc |-> r.exc, caught |-> caught,
                         npop |-> r.npop, npush |-> r.npush]
             /\ nexec' = IF nexec > Pow2(2 * p) THEN nexec ELSE nexec + 1
             /\ UNCHANGED <<p, allerr>>
             /\ UNCHANGED balsamico

Next == run

\* programs of four cells with marks, errors and halts: additions of
\* character literals, and assertions met in both directions
Alphabet == {"@", "&", "+", "'", "k", "X"}

AlphabetBack == {"@", "$", "1", "u", "k"}

Init == InitOf(Programs(Alphabet, {1}) \cup Programs(AlphabetBack, {1}), BOOLEAN)

Spec == Init /\ [][Next]_vars

\* the program @& : as a file of one line, and laid along the curve
AtAmpFiles == {<< <<"@", "&">> >>} \cup {FileOf(<<"@", "&">>, o) : o \in 1..MaxOrder}

\* marks, raises and blanks
AlphabetMark == {"@", "&", " "}

InitMark == InitOf(Programs(AlphabetMark, 1..MaxOrder) \cup AtAmpFiles, BOOLEAN)

SpecMark == InitMark /\ [][Next]_vars

\* programs that set the program counter: arrows, turning arrows, mirrors,
\* restarts and jumps, with and without a mark
MoveAlphabets ==
    {{"<", "v", " "}, {">", "^", " "}, {"W", "N", " "}, {"E", "S", " "},
     {"1", "|", "_"}, {"1", "#", " "}, {"O", ";", "u"},
     {"@", "1", "j"}, {"1", "-", "j"}, {"@", "9", "section"}, {"9", "-", "section"}}

InitMove ==
    \E a \in MoveAlphabets : InitOf(Programs(a, 1..MaxOrder), Flags(a))

SpecMove == InitMove /\ [][Next]_vars

\* programs that only follow the curve, forwards and backwards, and the
\* grids of nops
StepAlphabets == {{" ", "u", "@", "&"}, {" ", "1", "\\", "u"}}

BlankFiles == {FileOf(<<" ", " ">>, o) : o \in 1..(MaxOrder + 1)}

InitSteps ==
    \/ \E a \in StepAlphabets : InitOf(Programs(a, 1..MaxOrder), Flags(a))
    \/ InitOf(BlankFiles, {FALSE})

SpecSteps == InitSteps /\ [][Next]_vars

\* programs of four cells that pop and peek: drops and duplications on empty,
\* plain and sticky stacks
AlphabetStack == {"1", "2", "x", "d", "k", "K", ")"}

InitStack == InitOf(Programs(AlphabetStack, {1}), {FALSE})

SpecStack == InitStack /\ [][Next]_vars

\* the arithmetic opcodes
ArithOps == {"+", "-", "*", "/", ":", "%", "F"}

\* programs of four cells of one arithmetic opcode, input lines and digits
InitArith ==
    \E op \in ArithOps : InitOf(Programs({"r", "0", "2", op}, {1}), {FALSE})

SpecArith == InitArith /\ [][Next]_vars

\* programs of four cells that repeat, raise and enter the literal modes
MemoAlphabets ==
    {{"@", "&", "1", "."}, {"\"", "\\", "n", "."}, {"'", "\\", "1", "."},
     {"backtick", "1", "$", "."}}

InitMemo == \E a \in MemoAlphabets : InitOf(Programs(a, {1}), Flags(a))

SpecMemo == InitMemo /\ [][Next]_vars

\* programs of arrows and turning arrows: met in both directions and with
\* values on the stack, and repeated by .
GridAlphabets ==
    {{"<", "v", "u"}, {">", "^", "u"}, {"W", "N", "u"}, {"E", "S", "u"},
     {"<", "^", "1"}, {"E", "S", "1"},
     {"N", "W", "."}, {"S", "E", "."}}

\* arrows picked at random, on the grid of order 1
RandomAlphabets == {{"N", ".", "?"}, {"<", ".", "?"}, {"S", "?", " "}}

InitGrid ==
    \/ \E a \in GridAlphabets : InitOf(Programs(a, 1..MaxOrder), {FALSE})
    \/ \E a \in RandomAlphabets : InitOf(Programs(a, {1}), {FALSE})

SpecGrid == InitGrid /\ [][Next]_vars

\* programs of four cells with string literals, character literals and
\* escapes, over cells that would push, turn, rewrite the grid or raise
LiteralAlphabets ==
    {{"\"", "\\", "n", "t"}, {"\"", "\\", "u", "1"}, {"\"", "W", "&", "1"},
     {"'", "\\", "n", "1"}, {"'", "\\", "t", "u"}, {"'", "\"", "N", "&"},
     {"\\", "backtick", "1", "0"}, {"\\", "W", "&", "u"}, {"\\", "'", "\"", "1"},
     {"\"", "'", ")", "1"}}

\* longer literals, read forwards and backwards, on the grid of order 2
LiteralTexts ==
    {<<"\"", "1", "\\", "n", "\"", "1">>,
     <<"\"", "\\", "\"", "\\", "\\", "\"", "1">>,
     <<"\\", "\"", "1", "\\", "\"", "u">>,
     <<"\\", "'", "1", "\\", "t", "\\", "u">>,
     <<"1", "'", "\\", "\\", "'", "'", "1">>}

InitLiteral ==
    \/ \E a \in LiteralAlphabets : InitOf(Programs(a, {1}), {FALSE})
    \/ InitOf({FileOf(q, MaxOrder) : q \in LiteralTexts}, {FALSE})

SpecLiteral == InitLiteral /\ [][Next]_vars

\* programs of mirrors over numbers, strings, empty and sticky stacks
MirrorAlphabets ==
    {{"1", "0", "|", "_"}, {"1", "0", "#", "u"}, {"'", "\"", "|", "_"},
     {"'", "\"", "#", "1"}, {"k", "1", "_", "#"}}

InitMirror ==
    \E a \in MirrorAlphabets : InitOf(Programs(a, 1..MaxOrder), {FALSE})

SpecMirror == InitMirror /\ [][Next]_vars

\* programs of restarts and finalizers met in both directions, with values
\* on the stack
EndsAlphabets ==
    {{"O", ";", "u", "1"}, {"O", ";", "u", "\\"}, {"O", "\\", "u", "1"}}

InitEnds == \E a \in EndsAlphabets : InitOf(Programs(a, 1..MaxOrder), {FALSE})

SpecEnds == InitEnds /\ [][Next]_vars

\* programs of jumps and gotos: forwards and backwards, by positive, zero
\* and negative counts, on and off the curve, with a mark and with strings
JumpAlphabets ==
    {{"1", "j", "u"}, {"1", "-", "j"}, {"@", "5", "j"},
     {"2", "section", "u"}, {"9", "section", "@"},
     {"3", "-", "section"}, {"'", "j", "section"}}

InitJump == \E a \in JumpAlphabets : InitOf(Programs(a, 1..MaxOrder), Flags(a))

SpecJump == InitJump /\ [][Next]_vars

(***************************************************************************)
(* Properties.                                                             *)
(***************************************************************************)
\* a stack after n calls of pop() and no push
AfterPops(stack, n, isSticky) ==
    IF isSticky THEN stack ELSE SubSeq(stack, 1, Max2(0, Len(stack) - n))

\* the last step raised an exception
Raised == last.exc # ""

\* C1: when an opcode raises with a mark set and the flag off, the run goes
\* on with the program counter at the mark; the operands the opcode popped
\* stay popped (two for +), and direction, mode, stack id, sticky set and
\* mark are those of the moment of the raise; with no mark, or with the
\* flag on, the exception leaves run().
C1_CatchRewinds ==
    /\ Raised /\ last.pre.catch_mark # <<>> /\ ~allerr =>
          /\ status = "running"
          /\ <<x, y>> = last.pre.catch_mark
          /\ dir = last.pre.dir
          /\ mode = last.pre.mode
          /\ sid = last.pre.sid
          /\ sticky = last.pre.sticky
          /\ catch_mark = last.pre.catch_mark
          /\ stacks = [last.pre.stacks EXCEPT ![last.pre.sid] =
                          AfterPops(@, last.npop, last.pre.sid \in last.pre.sticky)]
          /\ last.cmd = "+" => last.npop = 2 /\ last.exc = "CodeException"
    /\ Raised /\ (last.pre.catch_mark = <<>> \/ allerr) => status = "error"

\* a + of the integer 0 and a string was caught and the string is gone
C1_Witness ==
    /\ last.caught /\ last.cmd = "+" /\ last.npop = 2
    /\ last.pre.stacks[0] = <<PyStr(<<"+">>)>> /\ stacks[0] = <<>>
    /\ <<x, y>> = catch_mark /\ status = "running"

\* the program is @&
IsAtAmp == code \in {load_code_hilbert(f).code : f \in AtAmpFiles}

\* the steps from the start of @& to its & : the length of the curve for
\* the file of one line, two when @ and & are neighbours on the curve
StepsToAmp == IF Len(code) = 1 THEN Pow2(2 * p) ELSE 2

\* what every state of a run shows of marks and raises
MarkLoopStates ==
    /\ last.cmd = "@" /\ last.pre.mode = "command" =>
          catch_mark = <<last.pre.x, last.pre.y>>
    /\ last.cmd = "&" /\ last.pre.mode = "command"
          /\ last.pre.catch_mark # <<>> /\ ~allerr =>
          /\ last.caught /\ status = "running" /\ mode = "command"
          /\ <<x, y>> = catch_mark
          /\ get_command(Cur(NoEnv)) = "@"
    /\ IsAtAmp /\ ~allerr => status = "running"
    /\ IsAtAmp /\ allerr =>
          /\ status # "halted"
          /\ nexec >= StepsToAmp => status = "error" /\ last.cmd = "&"

\* C2: @ marks its own cell; a later & (mark set, flag off) puts the program
\* counter on the cell of the last @, where @ is the next opcode to run; the
\* program @& never halts without the flag: every step leaves it running,
\* and as the loop of run() goes on taking steps, @ is run again and again;
\* with the flag its & ends the run in an error.
C2_MarkLoop ==
    /\ []MarkLoopStates
    /\ []<><<TRUE>>_vars =>
          []<>(IsAtAmp /\ ~allerr => last.cmd = "@" /\ status = "running")

\* the one-line program @& is back on its @ after more steps than it has cells
C2_Witness ==
    /\ code = << <<"@", "&">> >> /\ ~allerr
    /\ last.cmd = "&" /\ last.caught /\ <<x, y>> = <<0, 0>>
    /\ nexec > Pow2(2 * p)

\* where the program counter leaves the curve
AtEnd(px, py, d) ==
    \/ d = 1 /\ px = 0 /\ py = Pow2(p) - 1
    \/ d = -1 /\ px = 0 /\ py = 0

\* C3: X, and a move past either end of the curve, end the run as halted:
\* no exception is raised, nothing is caught even with a mark set, and no
\* step follows.
C3_HaltIsSuccess ==
    /\ [](/\ status = "halted" => last.exc = "" /\ ~last.caught
          /\ last.cmd = "X" /\ last.pre.mode = "command" => status = "halted"
          /\ AtEnd(last.pre.x, last.pre.y, dir) /\ last.exc = "" /\ last.cmd # ""
                => status = "halted")
    /\ [][status # "halted"]_vars

\* X halted a run whose mark was set and whose flag was off
C3_Witness ==
    status = "halted" /\ last.cmd = "X" /\ catch_mark # <<>> /\ ~allerr

\* C4: while the run has not halted the program counter is a cell of the
\* grid: 0 <= x < 2^p and 0 <= y < 2^p.
C4_CounterInGrid ==
    status # "halted" => x \in 0..(Pow2(p) - 1) /\ y \in 0..(Pow2(p) - 1)

\* ; has put the program counter on the last cell of the curve
C4_Witness ==
    /\ last.cmd = ";" /\ last.pre.mode = "command" /\ status = "running"
    /\ <<x, y>> = <<0, Pow2(p) - 1>> /\ <<last.pre.x, last.pre.y>> # <<x, y>>

\* the curve index of a cell (x, y)
IndexOf(cx, cy) == distance_from_coordinates(<<cy, cx>>, p).val

\* the opcodes that follow the curve
Advancing == {" ", "1", "\\", "u", "@"}

\* C5: an advance along the curve moves the program counter from index d
\* to d + dir; from the last index with dir = 1, and from index 0 with
\* dir = -1, it halts the run instead, and never lands on the other end.
C5_NoWrap ==
    last.cmd \in Advancing /\ last.exc = "" =>
        IF IndexOf(last.pre.x, last.pre.y) + dir \in 0..(Pow2(2 * p) - 1)
        THEN status = "running"
             /\ IndexOf(x, y) = IndexOf(last.pre.x, last.pre.y) + dir
        ELSE status = "halted"

\* a run that turned round and left the curve before index 0
C5_Witness ==
    /\ status = "halted" /\ dir = -1 /\ last.cmd \in Advancing
    /\ <<last.pre.x, last.pre.y>> = <<0, 0>> /\ nexec > 2

\* the characters of the program
Cells == UNION {{code[i][j] : j \in 1..Len(code[i])} : i \in 1..Len(code)}

TeleportOps ==
    {"<", ">", "v", "^", "W", "E", "S", "N", "|", "_", "#", "?", "O", ";",
     "j", "section"}

\* at most 4^p steps, and none left after the 4^p-th
WithinCurve ==
    nexec <= Pow2(2 * p) /\ (nexec = Pow2(2 * p) => status # "running")

\* C6 as stated: a program without teleport opcodes ends within 4^p steps.
C6_Stated == Cells \cap TeleportOps = {} => WithinCurve

\* C6: a program without teleport opcodes, without u and without @ ends
\* (halted, or in an error) within 4^p steps.
C6_StraightRunEnds ==
    Cells \cap (TeleportOps \cup {"u", "@"}) = {} => WithinCurve

\* a program of digits and escapes halted after exactly 4^p steps
C6_Witness ==
    /\ Cells \cap (TeleportOps \cup {"u", "@"}) = {}
    /\ "\\" \in Cells /\ "1" \in Cells
    /\ nexec = Pow2(2 * p) /\ status = "halted" /\ p > 1

\* C7: the curve is a bijection between the indices below 4^p and the
\* cells of the grid (coordinates of an index give the index back, index of
\* a cell gives the cell back); on a grid of nops the n-th step is taken at
\* index n, so that the walk meets every cell once and halts after 4^p
\* steps.
C7_CurveBijection ==
    Cells = {" "} =>
        /\ nexec = 0 => \A d \in 0..(Pow2(2 * p) - 1) :
              /\ coordinates_from_distance(d, p).err = ""
              /\ \A k \in 1..2 :
                    coordinates_from_distance(d, p).val[k] \in 0..(Pow2(p) - 1)
              /\ distance_from_coordinates(
                     coordinates_from_distance(d, p).val, p).val = d
        /\ nexec = 0 => \A cx \in 0..(Pow2(p) - 1), cy \in 0..(Pow2(p) - 1) :
              /\ IndexOf(cx, cy) \in 0..(Pow2(2 * p) - 1)
              /\ coordinates_from_distance(IndexOf(cx, cy), p).val = <<cy, cx>>
        /\ status = "running" => nexec = IndexOf(x, y)
        /\ status # "running" => status = "halted" /\ nexec = Pow2(2 * p)

\* the walk over the largest grid of nops has ended
C7_Witness ==
    Cells = {" "} /\ p = MaxOrder + 1 /\ status = "halted" /\ nexec = Pow2(2 * p)

\* the current stack before the last step, and its top
StackBefore == last.pre.stacks[last.pre.sid]

TopBefore == StackBefore[Len(StackBefore)]

\* the last step was cmd called in command mode
Ran(cmd) == last.cmd = cmd /\ last.pre.mode = "command"

\* C8: on an empty current stack, sticky or not, pop() returns the integer
\* 0 and raises nothing, and stacks, sticky set and stack id stay as they
\* are: x changes none of them and d pushes 0 twice.
C8_PopOnEmpty ==
    /\ stacks[sid] = <<>> =>
          /\ popped(Cur(NoEnv)) = PyInt(0)
          /\ pop(Cur(NoEnv)).exc = ""
          /\ pop(Cur(NoEnv)).stacks = stacks
          /\ pop(Cur(NoEnv)).sticky = sticky
          /\ pop(Cur(NoEnv)).sid = sid
    /\ StackBefore = <<>> /\ Ran("x") =>
          /\ last.exc = "" /\ last.npop = 1
          /\ stacks = last.pre.stacks /\ sticky = last.pre.sticky
          /\ sid = last.pre.sid
    /\ StackBefore = <<>> /\ Ran("d") =>
          /\ last.exc = "" /\ last.npop = 1
          /\ stacks = [last.pre.stacks EXCEPT ![sid] = <<PyInt(0), PyInt(0)>>]
          /\ sticky = last.pre.sticky /\ sid = last.pre.sid

\* d has run on the empty sticky stack 1 while stack 0 holds a value
C8_Witness ==
    /\ Ran("d") /\ StackBefore = <<>> /\ last.pre.sid = 1 /\ 1 \in sticky
    /\ stacks[1] = <<PyInt(0), PyInt(0)>> /\ stacks[0] # <<>>

\* C9: on a non-empty current stack pop() returns the top, and leaves the
\* stack as it is while the stack id is sticky and removes the top when it
\* is not (as after K); k adds the current stack id to the sticky set, K
\* removes it, and neither changes a stack.
C9_StickyPeek ==
    /\ stacks[sid] # <<>> =>
          /\ popped(Cur(NoEnv)) = stacks[sid][Len(stacks[sid])]
          /\ pop(Cur(NoEnv)).stacks =
                IF sid \in sticky THEN stacks
                ELSE [stacks EXCEPT ![sid] = SubSeq(@, 1, Len(@) - 1)]
    /\ StackBefore # <<>> /\ Ran("x") =>
          stacks = [last.pre.stacks EXCEPT ![sid] =
                       AfterPops(@, 1, last.pre.sid \in last.pre.sticky)]
    /\ StackBefore # <<>> /\ Ran("d") =>
          stacks = [last.pre.stacks EXCEPT ![sid] =
                       AfterPops(@, 1, last.pre.sid \in last.pre.sticky)
                           \o <<TopBefore, TopBefore>>]
    /\ Ran("k") =>
          /\ sticky = last.pre.sticky \cup {last.pre.sid}
          /\ stacks = last.pre.stacks /\ sid = last.pre.sid
    /\ Ran("K") =>
          /\ sticky = last.pre.sticky \ {last.pre.sid}
          /\ stacks = last.pre.stacks /\ sid = last.pre.sid

\* a drop peeked while the stack was sticky
C9_Witness ==
    /\ Ran("x") /\ last.pre.sid \in last.pre.sticky /\ last.pre.previous_cmd = "k"
    /\ StackBefore = <<PyInt(1)>> /\ stacks[sid] = <<PyInt(1)>>

\* an arithmetic opcode was called
RanArith == last.cmd \in ArithOps /\ last.pre.mode = "command"

\* the top operand was a number (the integer 0 of an empty stack included)
NumberOnTop == StackBefore = <<>> \/ IsNumber(TopBefore)

\* C10 as stated: an arithmetic opcode pops twice and pushes once.
C10_Stated == RanArith => last.npop = 2 /\ last.npush = 1

\* C10: an arithmetic opcode that raises nothing on a number as top operand
\* pops twice and pushes once; on a string as top operand - pops once, %
\* pops three times and the others twice; an opcode that raises pushes
\* nothing.
C10_ArithPopsPushes ==
    RanArith =>
        /\ NumberOnTop => last.npop = 2
        /\ NumberOnTop /\ last.exc = "" => last.npush = 1
        /\ ~NumberOnTop =>
              last.npop = IF last.cmd = "-" THEN 1
                          ELSE IF last.cmd = "%" THEN 3 ELSE 2
        /\ ~NumberOnTop /\ last.exc = "" /\ last.cmd \notin {"-", ":"} =>
              last.npush = 1
        /\ last.exc # "" => last.npush = 0

\* a division of two numbers popped both and pushed the quotient
C10_Witness ==
    /\ Ran(":") /\ last.exc = "" /\ last.npop = 2 /\ last.npush = 1
    /\ StackBefore = <<PyInt(2), PyInt(2)>> /\ stacks[0] = <<PyFloat(1, 1)>>

\* a step has been taken
Stepped == last.cmd # ""

\* C11: previous_cmd changes only in a step taken in command mode whose
\* method returned (no exception, no exit), and is then the character of the
\* cell; a step in string, string-escape, char, char-escape or escape mode,
\* and a command-mode step that raises, caught or not, leave it as it was.
C11_MemoOnlyAfterCommand ==
    Stepped =>
        /\ previous_cmd # last.pre.previous_cmd =>
              /\ last.pre.mode = "command" /\ last.exc = ""
              /\ status = "running" /\ previous_cmd = last.cmd
        /\ last.pre.mode # "command" => previous_cmd = last.pre.previous_cmd
        /\ last.pre.mode = "command" /\ last.exc # "" =>
              previous_cmd = last.pre.previous_cmd
        /\ last.pre.mode = "command" /\ last.exc = "" /\ status = "running" =>
              previous_cmd = last.cmd

\* a caught & left the memo of the digit before it
C11_Witness ==
    /\ Ran("&") /\ last.caught /\ status = "running"
    /\ last.pre.previous_cmd = "1" /\ previous_cmd = "1"

\* C12 as stated: after a step of . the memo is the character it held
\* before, and a . that follows a . ends its step as any other.
C12_Stated ==
    Ran(".") /\ status = "running" =>
        previous_cmd = last.pre.previous_cmd /\ last.exc = ""

\* the second . of a run of two found . in the memo and raised
C12_Witness ==
    /\ Ran(".") /\ last.pre.previous_cmd = "." /\ last.exc = "RecursionError"
    /\ last.npush = 0 /\ stacks = last.pre.stacks

\* the cell an arrow leads to from (cx, cy)
ArrowTarget(c, cx, cy) ==
    CASE c \in {"<", "W"} -> <<cx, (cy - 1) % Pow2(p)>>
      [] c \in {">", "E"} -> <<cx, (cy + 1) % Pow2(p)>>
      [] c \in {"v", "S"} -> <<(cx - 1) % Pow2(p), cy>>
      [] c \in {"^", "N"} -> <<(cx + 1) % Pow2(p), cy>>

Arrows == {"<", ">", "v", "^", "W", "E", "S", "N"}

\* C13: < > v ^ and W E S N, run in command mode at (x, y), put the program
\* counter on (x, y-1), (x, y+1), (x-1, y), (x+1, y), taken modulo 2^p, and
\* nowhere further along the curve; direction, mode and stacks stay as they
\* are, nothing is raised and the run goes on, also from a cell at the edge.
C13_ArrowsWrap ==
    last.cmd \in Arrows /\ last.pre.mode = "command" =>
        /\ <<x, y>> = ArrowTarget(last.cmd, last.pre.x, last.pre.y)
        /\ status = "running" /\ last.exc = ""
        /\ dir = last.pre.dir /\ mode = last.pre.mode
        /\ stacks = last.pre.stacks /\ sid = last.pre.sid
        /\ last.npop = 0 /\ last.npush = 0

\* < in the first column of a grid of order 2 led to the last column
C13_Witness ==
    /\ Ran("<") /\ p = 2 /\ last.pre.y = 0 /\ last.pre.x = 1
    /\ <<x, y>> = <<1, 3>> /\ status = "running"

\* the next letter clockwise
Clockwise(c) ==
    CASE c = "W" -> "N" [] c = "N" -> "E" [] c = "E" -> "S" [] c = "S" -> "W"

TurningArrows == {"W", "E", "S", "N"}

\* the grid before the last step with the cell of that step holding c
GridWith(c) ==
    [last.pre.code EXCEPT ![last.pre.x + 1][last.pre.y + 1] = c]

\* C14 as stated: a step changes the grid only when it runs W, E, S or N
\* from the cell that holds it, which becomes the next letter clockwise;
\* every other step, of . and ? too, leaves the grid as it was.
C14_Stated ==
    Stepped =>
        IF last.cmd \in TurningArrows /\ last.pre.mode = "command"
        THEN code = GridWith(Clockwise(last.cmd))
        ELSE code = last.pre.code

\* a . that followed N has turned into E
C14_Witness ==
    /\ Ran(".") /\ last.pre.previous_cmd = "N"
    /\ get_command(last.pre) = "."
    /\ code = GridWith("E") /\ code # last.pre.code

\* the step moved one cell along the curve, or left it and halted
Advanced ==
    IF IndexOf(last.pre.x, last.pre.y) + dir \in 0..(Pow2(2 * p) - 1)
    THEN status = "running"
         /\ IndexOf(x, y) = IndexOf(last.pre.x, last.pre.y) + dir
    ELSE status = "halted"

\* the cell of the last step was not dispatched: nothing raised, and memo,
\* grid, direction, mark, stack id and sticky set are as before
NotDispatched ==
    /\ last.exc = "" /\ last.npop = 0
    /\ previous_cmd = last.pre.previous_cmd /\ code = last.pre.code
    /\ dir = last.pre.dir /\ catch_mark = last.pre.catch_mark
    /\ sid = last.pre.sid /\ sticky = last.pre.sticky
    /\ Advanced

\* the last step pushed v, and only v, on the current stack
PushedOnly(v) ==
    /\ last.npush = 1
    /\ stacks = [last.pre.stacks EXCEPT ![last.pre.sid] = Append(@, v)]

NoStackChange == last.npush = 0 /\ stacks = last.pre.stacks

\* the character an escaped cell stands for
Unescaped(c) == IF c = "n" THEN "\n" ELSE IF c = "t" THEN "\t" ELSE c

\* C15: " run in command mode starts string mode with an empty buf; from
\* then on no cell is dispatched: a backslash adds nothing and escapes the
\* next cell, which adds a newline for n, a tab for t and itself otherwise
\* (a quote or a backslash too); any other cell but an unescaped quote adds
\* itself; these steps change no stack and advance along the curve in the
\* current direction; the unescaped quote pushes buf as one string on the
\* current stack, empties buf and returns to command mode.
C15_StringLiteral ==
    /\ mode \notin {"string", "string-escape"} => buf = <<>>
    /\ Ran("\"") =>
          /\ NoStackChange /\ buf = <<>> /\ last.exc = "" /\ Advanced
          /\ mode = "string"
    /\ last.pre.mode = "string" =>
          /\ NotDispatched
          /\ last.cmd = "\"" =>
                /\ PushedOnly(PyStr(last.pre.buf))
                /\ buf = <<>> /\ mode = "command"
          /\ last.cmd = "\\" =>
                NoStackChange /\ buf = last.pre.buf /\ mode = "string-escape"
          /\ last.cmd \notin {"\"", "\\"} =>
                /\ NoStackChange /\ buf = Append(last.pre.buf, last.cmd)
                /\ mode = "string"
    /\ last.pre.mode = "string-escape" =>
          /\ NotDispatched /\ NoStackChange
          /\ buf = Append(last.pre.buf, Unescaped(last.cmd))
          /\ mode = "string"

\* the string of a digit and a newline was pushed by its closing quote
C15_Witness ==
    /\ last.pre.mode = "string" /\ last.cmd = "\"" /\ mode = "command"
    /\ stacks[0] = <<PyStr(<<"1", "\n">>)>> /\ buf = <<>>
    /\ status = "running"

\* C16: ' run in command mode starts char mode and pushes nothing; the next
\* cell, when it is no backslash, is pushed as a string of one character
\* and the mode is command; a backslash pushes nothing and the cell after
\* it pushes a newline for n, a tab for t and itself otherwise, and the
\* mode is command; none of these cells is dispatched.
C16_CharLiteral ==
    /\ Ran("'") =>
          NoStackChange /\ last.exc = "" /\ Advanced /\ mode = "char"
    /\ last.pre.mode = "char" =>
          /\ NotDispatched /\ buf = last.pre.buf
          /\ last.cmd = "\\" => NoStackChange /\ mode = "char-escape"
          /\ last.cmd # "\\" =>
                PushedOnly(PyStr(<<last.cmd>>)) /\ mode = "command"
    /\ last.pre.mode = "char-escape" =>
          /\ NotDispatched /\ buf = last.pre.buf
          /\ PushedOnly(PyStr(<<Unescaped(last.cmd)>>)) /\ mode = "command"

\* an escaped t pushed a tab
C16_Witness ==
    /\ last.pre.mode = "char-escape" /\ last.cmd = "t" /\ mode = "command"
    /\ stacks[0] = <<PyStr(<<"\t">>)>> /\ status = "running"

\* C17: a backslash run in command mode starts escape mode; the cell met in
\* escape mode is not dispatched, changes no stack, no cell of the grid and
\* not the memo, and the step after it is taken in command mode again.
C17_EscapeSkipsOne ==
    /\ Ran("\\") =>
          /\ NoStackChange /\ last.exc = "" /\ Advanced
          /\ status = "running" => mode = "escape"
    /\ last.pre.mode = "escape" =>
          /\ NotDispatched /\ NoStackChange /\ buf = last.pre.buf
          /\ status = "running" => mode = "command"

\* an escaped W was passed over and left as it was
C17_Witness ==
    /\ last.pre.mode = "escape" /\ last.cmd = "W" /\ mode = "command"
    /\ previous_cmd = "\\" /\ code = last.pre.code /\ status = "running"

Mirrors == {"|", "_", "#"}

\* the cell a mirror leads to from (cx, cy)
MirrorTarget(c, cx, cy) ==
    CASE c = "|" -> <<cx, Pow2(p) - 1 - cy>>
      [] c = "_" -> <<Pow2(p) - 1 - cx, cy>>
      [] c = "#" -> <<Pow2(p) - 1 - cx, Pow2(p) - 1 - cy>>

\* the value a pop() of the last step found: the top, or 0 on an empty stack
FoundOnTop == IF StackBefore = <<>> THEN PyInt(0) ELSE TopBefore

\* C18: | _ and # call pop() once and push nothing; on a truthy value the
\* program counter is (x, 2^p-1-y), (2^p-1-x, y), (2^p-1-x, 2^p-1-y) and
\* the run goes on there; on a falsy value, the 0 of an empty stack
\* included, the program counter advances along the curve as after a nop.
C18_Mirrors ==
    last.cmd \in Mirrors /\ last.pre.mode = "command" =>
        /\ last.npop = 1 /\ last.npush = 0 /\ last.exc = ""
        /\ stacks = [last.pre.stacks EXCEPT ![last.pre.sid] =
                        AfterPops(@, 1, last.pre.sid \in last.pre.sticky)]
        /\ dir = last.pre.dir /\ mode = "command"
        /\ IF Truthy(FoundOnTop)
           THEN /\ <<x, y>> = MirrorTarget(last.cmd, last.pre.x, last.pre.y)
                /\ status = "running"
           ELSE Advanced

\* # on a 1 led from (1, 1) to (2, 2) on the grid of order 2
C18_Witness ==
    /\ Ran("#") /\ p = 2 /\ StackBefore = <<PyInt(1), PyInt(1)>>
    /\ stacks[0] = <<PyInt(1)>>
    /\ <<last.pre.x, last.pre.y>> = <<1, 1>> /\ <<x, y>> = <<2, 2>>
    /\ status = "running"

\* the curve index O leads to in direction d: the first for +1, the last
\* for -1
RestartIndex(d) == IF d = 1 THEN 0 ELSE Pow2(2 * p) - 1

\* C19: O puts the program counter on (0,0) when dir is +1 and on the cell
\* of index 4^p - 1 when dir is -1, ; on the other end in either case; the
\* run goes on at that cell, and direction and stacks are as before.
C19_RestartFinalize ==
    /\ Ran("O") =>
          /\ IndexOf(x, y) = RestartIndex(last.pre.dir)
          /\ last.pre.dir = 1 => <<x, y>> = <<0, 0>>
    /\ Ran(";") =>
          /\ IndexOf(x, y) = RestartIndex(0 - last.pre.dir)
          /\ last.pre.dir = -1 => <<x, y>> = <<0, 0>>
    /\ Ran("O") \/ Ran(";") =>
          /\ status = "running" /\ last.exc = "" /\ mode = "command"
          /\ dir = last.pre.dir /\ NoStackChange /\ last.npop = 0

\* O met backwards on the grid of order 2 led to the last cell of the curve
C19_Witness ==
    /\ Ran("O") /\ last.pre.dir = -1 /\ p = 2 /\ stacks[0] # <<>>
    /\ IndexOf(x, y) = 15 /\ IndexOf(last.pre.x, last.pre.y) # 15

\* the index j or section aims at, for the integer n found on the stack
JumpTarget(c, n) ==
    IF c = "j" THEN IndexOf(last.pre.x, last.pre.y) + last.pre.dir * n ELSE n

RangeAlphabets ==
    {{"3", "Z", "p"}, {"3", "z", "p"}, {"2", "Z", "z"},
     {"2", "k", "Z"}, {"0", "Z", "@"}, {"'", "z", "@"}}

\* two minus a larger digit, handed to a range
RangeTexts ==
    {<<"2", "3", "-", "Z">>, <<"2", "3", "-", "z">>,
     <<"2", "5", "-", "Z">>, <<"2", "5", "-", "z">>}

InitRange ==
    \/ \E a \in RangeAlphabets : InitOf(Programs(a, 1..MaxOrder), Flags(a))
    \/ InitOf({FileOf(t, 1) : t \in RangeTexts}, {FALSE})

SpecRange == InitRange /\ [][Next]_vars

\* the integers from a up to b, and from a down to b, bottom first
Upward(a, b) == [i \in 1..(b - a + 1) |-> PyInt(a + i - 1)]

Downward(a, b) == [i \in 1..(a - b + 1) |-> PyInt(a + 1 - i)]

\* the stack the last step found, after its one pop
AfterOnePop == AfterPops(StackBefore, 1, last.pre.sid \in last.pre.sticky)

\* the last step was z or Z finding a positive integer
RangeOfPositive == (Ran("z") \/ Ran("Z")) /\ IsInt(FoundOnTop) /\ FoundOnTop.n > 0

ZeroAlphabets ==
    UNION {{{"0", "2", op}, {"0", op, "@"}} : op \in {"/", ":", "%"}}

InitZero == \E a \in ZeroAlphabets : InitOf(Programs(a, 1..MaxOrder), Flags(a))

SpecZero == InitZero /\ [][Next]_vars

\* the last step was a dividing opcode that found a numeric zero on top
DividedByZero ==
    /\ Ran("/") \/ Ran(":") \/ Ran("%")
    /\ IsNumber(FoundOnTop) /\ FoundOnTop.n = 0

\* C22 as stated: / : and % with a numeric zero on top raise CodeException;
\* both operands are consumed, nothing is pushed, and the program counter
\* stays on the cell of the opcode, or is set to the mark when the error is
\* caught.
C22_Stated ==
    DividedByZero =>
        /\ last.exc = "CodeException"
        /\ last.npop = 2 /\ last.npush = 0
        /\ stacks = [last.pre.stacks EXCEPT ![last.pre.sid] =
                        AfterPops(@, 2, last.pre.sid \in last.pre.sticky)]
        /\ IF last.caught THEN <<x, y>> = catch_mark /\ status = "running"
           ELSE <<x, y>> = <<last.pre.x, last.pre.y>> /\ status = "error"

\* % found 0 above 2 and raised ZeroDivisionError
C22_Witness ==
    /\ Ran("%") /\ StackBefore = <<PyInt(2), PyInt(0)>>
    /\ last.exc = "ZeroDivisionError" /\ stacks[0] = <<>>

(***************************************************************************)
(* Characters without an entry in the dispatch table.                      *)
(***************************************************************************)
\* programs of a character without entry among opcodes that fill the
\* stacks, the sticky set, the mark and the memo, and that turn the run
UnknownAlphabets ==
    {{"\t", "1", "u"}, {"\t", ".", "@"}, {"eacute", "k", ")"},
     {"eacute", "s", "2"}, {"\t", "eacute", " "}}

InitUnknown ==
    \E a \in UnknownAlphabets : InitOf(Programs(a, 1..MaxOrder), Flags(a))

SpecUnknown == InitUnknown /\ [][Next]_vars

\* the step a space in the cell of the last step would have been
AsSpace ==
    step([last.pre EXCEPT !.code[last.pre.x + 1][last.pre.y + 1] = " "])

\* the last step called the default of the table: a character without
\* entry, or . repeating one
RanUnknown ==
    \/ last.cmd \in NoEntry /\ last.pre.mode = "command"
    \/ Ran(".") /\ last.pre.previous_cmd \in NoEntry

\* C23: in command mode a character without an entry in the dispatch table
\* (also when . repeats it) raises nothing, calls neither pop() nor push(),
\* leaves stacks, stack id, sticky set, grid, mode, direction, mark and buf
\* as they are and advances the program counter along the curve, as a space
\* in the same cell would do.
C23_UnknownIsNop ==
    RanUnknown =>
        /\ last.exc = "" /\ last.npop = 0
        /\ NoStackChange
        /\ sid = last.pre.sid /\ sticky = last.pre.sticky
        /\ code = last.pre.code /\ mode = last.pre.mode
        /\ dir = last.pre.dir /\ catch_mark = last.pre.catch_mark
        /\ buf = last.pre.buf /\ quick = last.pre.quick
        /\ Advanced
        /\ <<x, y>> = <<AsSpace.x, AsSpace.y>>
        /\ (status = "halted") = AsSpace.exited
        /\ AsSpace.exc = "" /\ AsSpace.stacks = stacks

\* a tab met backwards with a value on the stack: the run went on one cell
\* further down the curve
C23_Witness ==
    /\ last.cmd = "\t" /\ last.pre.mode = "command"
    /\ dir = -1 /\ stacks[0] = <<PyInt(1)>> /\ status = "running"
    /\ IndexOf(x, y) = IndexOf(last.pre.x, last.pre.y) - 1

(***************************************************************************)
(* Moves between stacks.                                                   *)
(***************************************************************************)
\* programs of the moving opcodes with digits, k, a character literal, and
\* ( ) to start from the other stack
ShiftAlphabets ==
    {{"1", "{", "}"}, {"2", "[", "]"}, {"2", "(", "}"}, {"1", ")", "{"},
     {"1", "(", "]"}, {"2", ")", "["}, {"k", "1", "}"}, {"k", "2", "["},
     {"'", "}", "["}}

InitShift == \E a \in ShiftAlphabets : InitOf(Programs(a, 1..MaxOrder), {FALSE})

SpecShift == InitShift /\ [][Next]_vars

\* the stack id an opcode of this family works towards
Neighbour(c) ==
    IF c \in {"{", "[", "("} THEN last.pre.sid - 1 ELSE last.pre.sid + 1

MovingOps == {"{", "}", "[", "]"}

\* C24: { and } call pop() once on the current stack and push the value
\* found on the stack sid-1 and sid+1, and the current stack id is as
\* before; [ and ] do the same and make that neighbour the current stack;
\* no stack but the two involved changes; ( and ) change only the stack id
\* (and advance): no stack, no pop, no push.  The sticky set stays.
C24_StackMoves ==
    /\ last.cmd \in MovingOps /\ last.pre.mode = "command" =>
          /\ last.exc = "" /\ last.npop = 1 /\ last.npush = 1
          /\ stacks = [[last.pre.stacks EXCEPT ![last.pre.sid] = AfterOnePop]
                          EXCEPT ![Neighbour(last.cmd)] = Append(@, FoundOnTop)]
          /\ sid = (IF last.cmd \in {"[", "]"} THEN Neighbour(last.cmd)
                    ELSE last.pre.sid)
          /\ sticky = last.pre.sticky
          /\ Advanced
    /\ last.cmd \in {"(", ")"} /\ last.pre.mode = "command" =>
          /\ last.exc = "" /\ last.npop = 0 /\ NoStackChange
          /\ sid = Neighbour(last.cmd)
          /\ sticky = last.pre.sticky /\ code = last.pre.code
          /\ dir = last.pre.dir /\ catch_mark = last.pre.catch_mark
          /\ Advanced

\* } took the 2 on top of stack -1, above a 1, to stack 0 and left the
\* stack id at -1
C24_Witness ==
    /\ Ran("}") /\ last.pre.sid = -1
    /\ last.pre.stacks[-1] = <<PyInt(2), PyInt(2)>> /\ last.pre.stacks[0] = <<>>
    /\ stacks[-1] = <<PyInt(2)>> /\ stacks[0] = <<PyInt(2)>> /\ sid = -1

(***************************************************************************)
(* d and s.                                                                *)
(***************************************************************************)
\* programs of d and s on empty, short and longer stacks, sticky or not,
\* of integers and strings
DupAlphabets ==
    {{"1", "2", "s"}, {"1", "d", "s"}, {"2", "k", "s"}, {"k", "d", "s"},
     {"1", "2", "d"}, {"'", "1", "s"}, {"d", "s", ")"}, {"1", "k", "d"}}

InitDup == \E a \in DupAlphabets : InitOf(Programs(a, 1..MaxOrder), {FALSE})

SpecDup == InitDup /\ [][Next]_vars

\* the top two entries of a stack, the lower first
TopTwo(stack) == SubSeq(stack, Len(stack) - 1, Len(stack))

\* the interpreter of the current state, and after one and two more s
Now == Cur(NoEnv)

OneSwapOn == _swap(Now, "s")

TwoSwapsOn == _swap(OneSwapOn, "s")

\* the stack the last step found held two entries or more and was not sticky
PlainPair == Len(StackBefore) >= 2 /\ last.pre.sid \notin last.pre.sticky

\* C25: whatever stack d found (empty, of one entry or more, sticky or
\* not), the stack after d holds two entries or more and, when two s follow
\* it, the top two entries after them are the top two entries after d; s on
\* a stack of two entries or more that is not sticky exchanges the top two
\* entries and changes nothing below them and no other stack, and a second
\* s gives the stack before the first back.
C25_DupSwapSwap ==
    /\ Ran("d") /\ status = "running" =>
          /\ last.exc = "" /\ Len(stacks[sid]) >= 2
          /\ OneSwapOn.exc = "" /\ TwoSwapsOn.exc = ""
          /\ ~OneSwapOn.exited => TwoSwapsOn.npop = 4 /\ TwoSwapsOn.npush = 4
          /\ TopTwo(OneSwapOn.stacks[sid]) = TopTwo(stacks[sid])
          /\ TopTwo(TwoSwapsOn.stacks[sid]) = TopTwo(stacks[sid])
    /\ Ran("s") /\ PlainPair =>
          /\ last.exc = "" /\ last.npop = 2 /\ last.npush = 2
          /\ stacks = [last.pre.stacks EXCEPT ![last.pre.sid] =
                          SubSeq(@, 1, Len(@) - 2)
                              \o <<@[Len(@)], @[Len(@) - 1]>>]
          /\ sid = last.pre.sid /\ sticky = last.pre.sticky
          /\ Advanced
          /\ status = "running" => OneSwapOn.stacks = last.pre.stacks

\* the second s of the program 1 2 s s gave the stack 1, 2 back
C25_Witness ==
    /\ Ran("s") /\ last.pre.previous_cmd = "s"
    /\ StackBefore = <<PyInt(2), PyInt(1)>>
    /\ stacks[0] = <<PyInt(1), PyInt(2)>>

(***************************************************************************)
(* Strings taken apart and put together.                                   *)
(***************************************************************************)
\* programs of the exploding and imploding opcodes on lines read, digits,
\* character literals and sticky stacks
ImplodeAlphabets ==
    {{"r", "euro", "pound"}, {"r", "euro", "yen"}, {"r", "1", "pound"},
     {"k", "r", "euro"}, {"k", "r", "pound"}, {"r", ")", "pound"}}

\* the same without input, for the larger grids too
ImplodeAlphabetsWide == {{"1", "2", "yen"}, {"'", "euro", "yen"}}

InitImplode ==
    \/ \E a \in ImplodeAlphabets : InitOf(Programs(a, {1}), {FALSE})
    \/ \E a \in ImplodeAlphabetsWide : InitOf(Programs(a, 1..MaxOrder), {FALSE})

SpecImplode == InitImplode /\ [][Next]_vars

\* the characters of s as one-character strings, the last one first
CharsLastFirst(s) == [i \in 1..Len(s) |-> PyStr(<<s[Len(s) + 1 - i]>>)]

\* the texts of the values of a stack, from the top down to the bottom
RECURSIVE Joined(_)
Joined(stack) ==
    IF stack = <<>> THEN <<>>
    ELSE PyStrOf(stack[Len(stack)]).val.s
             \o Joined(SubSeq(stack, 1, Len(stack) - 1))

\* C26: euro calls pop() once and, for a string, pushes its characters as
\* one-character strings, the last character first, so that the first
\* character is on top; pound and yen replace the current stack by one
\* string, the texts of all its values joined with the top leftmost and the
\* bottom rightmost, and touch no other stack; on a stack that is not
\* sticky and holds exactly one string, euro followed by pound (or yen)
\* gives the stack back.
C26_ExplodeImplode ==
    /\ Ran("euro") /\ FoundOnTop.t = "str" =>
          /\ last.exc = "" /\ last.npop = 1
          /\ last.npush = Len(FoundOnTop.s)
          /\ stacks = [last.pre.stacks EXCEPT ![last.pre.sid] =
                          AfterOnePop \o CharsLastFirst(FoundOnTop.s)]
          /\ FoundOnTop.s # <<>> =>
                 stacks[sid][Len(stacks[sid])] = PyStr(<<FoundOnTop.s[1]>>)
          /\ sid = last.pre.sid /\ sticky = last.pre.sticky
          /\ Advanced
          /\ (/\ Len(StackBefore) = 1 /\ sid \notin sticky
              /\ status = "running") =>
                 /\ _implode_string(Now, "pound").exc = ""
                 /\ _implode_string(Now, "pound").stacks = last.pre.stacks
    /\ Ran("pound") \/ Ran("yen") =>
          /\ last.exc = "" /\ last.npop = 0
          /\ stacks = [last.pre.stacks EXCEPT ![last.pre.sid] =
                          <<PyStr(Joined(@))>>]
          /\ sid = last.pre.sid /\ sticky = last.pre.sticky
          /\ Advanced

\* the line "a " was read, exploded to " " below "a", and imploded to the
\* line again
C26_Witness ==
    /\ Ran("pound") /\ last.pre.previous_cmd = "euro"
    /\ StackBefore = <<PyStr(<<" ">>), PyStr(<<"a">>)>>
    /\ stacks[0] = <<PyStr(<<"a", " ">>)>>

(***************************************************************************)
(* J.                                                                      *)
(***************************************************************************)
\* programs of J on digits, lines read, character literals, sticky and
\* empty stacks
JoinAlphabets == {{"r", "1", "J"}, {"k", "r", "J"}}

JoinAlphabetsWide == {{"1", "2", "J"}, {"'", "1", "J"}, {"k", "2", "J"}}

InitJoin ==
    \/ \E a \in JoinAlphabets : InitOf(Programs(a, {1}), {FALSE})
    \/ \E a \in JoinAlphabetsWide : InitOf(Programs(a, 1..MaxOrder), {FALSE})

SpecJoin == InitJoin /\ [][Next]_vars

\* the value the second pop() of the last step found
SecondFound == popped(pop(last.pre))

\* the text of a value
TextOf(v) == PyStrOf(v).val.s

\* the stack the last step found, after two pops
AfterTwoPops == AfterPops(StackBefore, 2, last.pre.sid \in last.pre.sticky)

\* C27 as stated: J pops x (the top) and then y and pushes str(y) + str(x).
C27_Stated ==
    Ran("J") =>
        stacks[sid] = AfterTwoPops
                          \o <<PyStr(TextOf(SecondFound) \o TextOf(FoundOnTop))>>

\* C27: J calls pop() twice, finding x (the top) and then y, and pushes the
\* one string str(x) + str(y): the text of the top value first, that of the
\* value below it second.  Nothing is raised, no other stack changes and
\* the program counter advances.
C27_Join ==
    Ran("J") =>
        /\ last.exc = "" /\ last.npop = 2 /\ last.npush = 1
        /\ stacks = [last.pre.stacks EXCEPT ![last.pre.sid] =
                        AfterTwoPops
                            \o <<PyStr(TextOf(FoundOnTop) \o TextOf(SecondFound))>>]
        /\ sid = last.pre.sid /\ sticky = last.pre.sticky
        /\ Advanced

\* J found 2 above 1 and pushed "21"
C27_Witness ==
    /\ Ran("J") /\ StackBefore = <<PyInt(1), PyInt(2)>> /\ sticky = {}
    /\ stacks[0] = <<PyStr(<<"2", "1">>)>>

(***************************************************************************)
(* The clock.                                                              *)
(***************************************************************************)
\* programs of one of the two characters of the clock with p, x, d and nops
ClockAlphabets ==
    {{"tm", "p", " "}, {"tau", "x", "d"}, {"tm", "tau", "p"}, {"tau", "k", "p"}}

InitClock == \E a \in ClockAlphabets : InitOf(Programs(a, 1..MaxOrder), {FALSE})

SpecClock == InitClock /\ [][Next]_vars

RanClock == Ran("tm") \/ Ran("tau")

\* the six fields of a reading, the year first and the year last
YearFirst(c) == [i \in 1..ClockFields |-> PyInt(c[i])]

YearLast(c) == [i \in 1..ClockFields |-> PyInt(c[ClockFields + 1 - i])]

\* C28 as stated: the six integers are pushed so that the second is on top
\* and the year lowest.
C28_Stated ==
    RanClock => \E c \in Clock : stacks[sid] = StackBefore \o YearFirst(c)

\* C28: the clock opcodes call pop() never and append the six integers of
\* one reading of the local time in the order second, minute, hour, day,
\* month, year: the year is on top and the second is the lowest of the six.
\* Nothing is raised, no other stack changes, and the program counter
\* advances.
C28_Datetime ==
    RanClock =>
        /\ last.exc = "" /\ last.npop = 0 /\ last.npush = ClockFields
        /\ \E c \in Clock :
              /\ stacks = [last.pre.stacks EXCEPT ![last.pre.sid] =
                              @ \o YearLast(c)]
              /\ stacks[sid][Len(stacks[sid])] = PyInt(c[1])
              /\ stacks[sid][Len(stacks[sid]) - 5] = PyInt(c[6])
        /\ sid = last.pre.sid /\ sticky = last.pre.sticky
        /\ Advanced

\* a reading of 2026-11-02 09:05:07 on an empty stack
C28_Witness ==
    /\ Ran("tm")
    /\ stacks[0] = <<PyInt(7), PyInt(5), PyInt(9), PyInt(2), PyInt(11), PyInt(2026)>>

(***************************************************************************)
(* The string buffer.                                                      *)
(***************************************************************************)
\* programs of string literals among turns, restarts, jumps, mirrors,
\* character literals, escapes, and marks with errors
BufAlphabets ==
    {{"\"", "1", "u"}, {"\"", "\\", "O"}, {"\"", "@", "&"}, {"\"", "1", "j"},
     {"\"", "'", "|"}, {"\"", "K", "@"}, {"\"", "k", ";"}, {"\"", ".", "\\"}}

InitBuf == \E a \in BufAlphabets : InitOf(Programs(a, 1..MaxOrder), Flags(a))

SpecBuf == InitBuf /\ [][Next]_vars

StringModes == {"string", "string-escape"}

\* C29: in every reachable state buf is empty unless the mode is string or
\* string-escape: it is empty in command, char, char-escape and escape
\* mode, after a halt and after an error, caught or not.
C29_BufOnlyInString == mode \notin StringModes => buf = <<>>

\* a closing quote, met backwards, pushed the character of buf a second
\* time and left buf empty
C29_Witness ==
    /\ last.cmd = "\"" /\ last.pre.mode = "string" /\ last.pre.buf = <<"1">>
    /\ dir = -1 /\ mode = "command" /\ buf = <<>>
    /\ stacks[0] = <<PyStr(<<"1">>), PyStr(<<"1">>)>>

(***************************************************************************)
(* Errors of any kind.                                                     *)
(***************************************************************************)
\* programs with a mark and an opcode that raises: KeyError (K off the
\* sticky set), ZeroDivisionError (%), TypeError (euro of a number),
\* ValueError (j off the curve), RecursionError (. after .) and
\* CodeException (&, Z of 0)
ErrorAlphabets ==
    {{"K", "@", "k"}, {"K", "@", "1"}, {"K", "@", ")"}, {"@", "0", "%"},
     {"@", "euro", "1"}, {"@", "5", "j"}, {"@", ".", "1"}, {"@", "&", "K"},
     {"@", "Z", "u"}}

\* K on the other stack than the sticky one, after a mark
ErrorAlphabetsFour == {{"@", "k", ")", "K"}}

InitError ==
    \/ \E a \in ErrorAlphabets : InitOf(Programs(a, 1..MaxOrder), BOOLEAN)
    \/ \E a \in ErrorAlphabetsFour : InitOf(Programs(a, {1}), BOOLEAN)

SpecError == InitError /\ [][Next]_vars

\* the kinds of exception that are no CodeException
OtherErrors ==
    {"KeyError", "ZeroDivisionError", "TypeError", "ValueError",
     "RecursionError", "IndexError", "AttributeError"}

\* C30: run() handles an exception of any kind as it handles a
\* CodeException: the step is caught exactly when a mark is set and the -e
\* flag is off, and then the run goes on with the program counter at the
\* mark; otherwise the run ends in error with the program counter on the
\* cell that raised; direction, mode, stack id, sticky set, grid and mark
\* are those before the step.  K on a stack id that is not in the sticky
\* set raises (KeyError), calls neither pop() nor push() and leaves the
\* sticky set and all stacks as they are.
C30_AnyErrorHandled ==
    /\ Raised =>
          /\ last.exc \in OtherErrors \cup {"CodeException"}
          /\ last.caught = (last.pre.catch_mark # <<>> /\ ~allerr)
          /\ IF last.caught
             THEN <<x, y>> = last.pre.catch_mark /\ status = "running"
             ELSE <<x, y>> = <<last.pre.x, last.pre.y>> /\ status = "error"
          /\ dir = last.pre.dir /\ mode = last.pre.mode
          /\ sid = last.pre.sid /\ sticky = last.pre.sticky
          /\ code = last.pre.code /\ catch_mark = last.pre.catch_mark
    /\ Ran("K") /\ last.pre.sid \notin last.pre.sticky =>
          /\ last.exc = "KeyError"
          /\ last.npop = 0 /\ NoStackChange

\* K on stack 1, which is not sticky while stack 0 is, raised KeyError and
\* was caught: the run goes on at the mark
C30_Witness ==
    /\ Ran("K") /\ last.exc = "KeyError" /\ last.caught
    /\ sid = 1 /\ sticky = {0}
    /\ <<x, y>> = catch_mark /\ status = "running"
    /\ <<x, y>> # <<last.pre.x, last.pre.y>>

(***************************************************************************)
(* The Balsamico editor (src/balsamico.py).  Its globals are string (the   *)
(* list of characters), cursor and text (the lines the widget shows);      *)
(* saved holds the characters of the file it wrote, and edlast the last    *)
(* thing that happened: a key, "save" or "load", the string and the cursor *)
(* before it and the exception it raised.  The sign the widget shows at    *)
(* the cursor is "cursor-mark".                                            *)
(***************************************************************************)
\* longest text typed into the editor
MaxType == 3
\* longest text saved and loaded
MaxText == 13

\* ceil(log2(len(string) ** .5)): the least q with 4^q >= n
CeilLog2Sqrt(n) == CHOOSE q \in 0..n : Pow2(2 * q) >= n /\ \A r \in 0..(q - 1) : Pow2(2 * r) < n

\* ceil(log2(m)): the least q with 2^q >= m
CeilLog2(m) == CHOOSE q \in 0..m : Pow2(q) >= m /\ \A r \in 0..(q - 1) : Pow2(r) < m

\* cursor=None
None == -1

\* d[r][c] after the loop of str_to_hilbert: the character laid on row r,
\* column c, and the empty string of the defaultdict for a cell never set
Laid(str, cur, q, r, c) ==
    LET at == {i \in 0..(Len(str) - 1) : CellOf(i, q) = <<r, c>>}
        i  == CHOOSE k \in at : TRUE
    IN  IF at = {} THEN <<>>
        ELSE IF cur # None /\ i = cur THEN <<"cursor-mark">>
        ELSE <<str[i + 1]>>

\* "".join(d[r][c] for c in range(2**p)), from column c on
RECURSIVE JoinRow(_, _, _, _, _)
JoinRow(str, cur, q, r, c) ==
    IF c >= Pow2(q) THEN <<>>
    ELSE Laid(str, cur, q, r, c) \o JoinRow(str, cur, q, r, c + 1)

\* "\n".join(lines)
RECURSIVE JoinLines(_)
JoinLines(lines) ==
    IF lines = <<>> THEN <<>>
    ELSE IF Len(lines) = 1 THEN Head(lines)
    ELSE Head(lines) \o <<"\n">> \o JoinLines(Tail(lines))

\* str_to_hilbert(string, cursor): the rows from the topmost down, joined
str_to_hilbert(str, cur) ==
    LET q == CeilLog2Sqrt(Len(str))
    IN  JoinLines([k \in 1..Pow2(q) |-> JoinRow(str, cur, q, Pow2(q) - k, 0)])

\* [line.rstrip("\n") for line in f.readlines()]
RECURSIVE ReadLines(_, _)
ReadLines(chars, line) ==
    IF chars = <<>> THEN (IF line = <<>> THEN <<>> ELSE <<line>>)
    ELSE IF Head(chars) = "\n" THEN <<line>> \o ReadLines(Tail(chars), <<>>)
    ELSE ReadLines(Tail(chars), Append(line, Head(chars)))

\* s.rstrip()
RECURSIVE RStrip(_)
RStrip(s) ==
    IF s # <<>> /\ s[Len(s)] \in Whitespace THEN RStrip(SubSeq(s, 1, Len(s) - 1))
    ELSE s

\* code[r][c], a space on IndexError
CellOrBlank(rows, r, c) ==
    IF r + 1 \in 1..Len(rows) /\ c + 1 \in 1..Len(rows[r + 1])
    THEN rows[r + 1][c + 1]
    ELSE " "

\* hilbert_to_str(filename) for the characters of the file: max() of no
\* line is a ValueError; the curve of order 0 is not modelled
hilbert_to_str(chars) ==
    LET rows == Reverse(ReadLines(chars, <<>>))
        q    == CeilLog2(Max2(Len(rows), MaxLineLen(rows)))
    IN  IF rows = <<>> THEN Err("ValueError")
        ELSE IF q = 0 THEN Err("unmodelled")
        ELSE [err |-> "",
              val |-> RStrip([i \in 1..Pow2(2 * q) |->
                          CellOrBlank(rows, CellOf(i - 1, q)[1], CellOf(i - 1, q)[2])])]

\* the index list.pop(i) and list[i] use: a negative i counts from the end
PyListIndex(s, i) == IF i < 0 THEN i + Len(s) ELSE i

\* s.pop(i): IndexError outside the list
ListPop(s, i) ==
    LET k == PyListIndex(s, i)
    IN  IF k \in 0..(Len(s) - 1)
        THEN [err |-> "", val |-> SubSeq(s, 1, k) \o SubSeq(s, k + 2, Len(s))]
        ELSE [err |-> "IndexError", val |-> s]

\* s.insert(i, c) for i in 0..len(s)
ListInsert(s, i, c) == SubSeq(s, 1, i) \o <<c>> \o SubSeq(s, i + 1, Len(s))

\* the keys urwid hands to keystroke: characters and named keys
CharKeys == {"a", "b"}

NamedKeys == {"enter", "ctrl d", "backspace", "delete", "left", "right", "up"}

\* the branches of keystroke(key) up to the redraw: the string, the cursor,
\* whether ExitMainLoop was raised, and an exception
KeyResult(str, cur, key) ==
    LET same == [string |-> str, cursor |-> cur, exit |-> FALSE, exc |-> ""]
    IN  IF key \in {"enter", "ctrl d"} THEN [same EXCEPT !.exit = TRUE]
        ELSE IF key = "backspace" /\ str # <<>>
             THEN IF ListPop(str, cur - 1).err # ""
                  THEN [same EXCEPT !.exc = ListPop(str, cur - 1).err]
                  ELSE [same EXCEPT !.string = ListPop(str, cur - 1).val,
                                    !.cursor = IF cur > 0 THEN cur - 1 ELSE cur]
        ELSE IF key = "delete" /\ str # <<>> /\ cur < Len(str)
             THEN IF ListPop(str, cur).err # ""
                  THEN [same EXCEPT !.exc = ListPop(str, cur).err]
                  ELSE [same EXCEPT !.string = ListPop(str, cur).val]
        ELSE IF key = "left" /\ cur > 0 THEN [same EXCEPT !.cursor = cur - 1]
        ELSE IF key = "right" /\ cur < Len(str) THEN [same EXCEPT !.cursor = cur + 1]
        ELSE IF key \in NamedKeys THEN same
        ELSE [same EXCEPT !.string = ListInsert(str, cur, key), !.cursor = cur + 1]

\* what text.set_text(...) at the end of keystroke shows
Shown(str, cur) ==
    IF Len(str) > 1 THEN ReadLines(str_to_hilbert(str, cur), <<>>) ELSE <<str>>

\* the text of the widget before the first key
Welcome == <<<<"J", "u", "s", "t", " ", "s", "t", "a", "r", "t">>>>

\* main.run() is handing keys to keystroke
MainLoop == edlast.op \notin {"enter", "ctrl d", "save"} /\ edlast.exc = ""

\* keystroke(key), for the keys of this model and texts up to MaxType
keystroke ==
    /\ MainLoop
    /\ \E key \in CharKeys \cup NamedKeys :
       \E r \in {KeyResult(string, cursor, key)} :
          /\ Len(r.string) <= MaxType
          /\ string' = r.string
          /\ cursor' = r.cursor
          /\ text' = IF r.exit \/ r.exc # "" THEN text ELSE Shown(r.string, r.cursor)
          /\ edlast' = [op |-> key, string |-> string, cursor |-> cursor, exc |-> r.exc]
          /\ UNCHANGED saved
          /\ UNCHANGED aceto

\* the end of the script, after the main loop: the file is opened for
\* writing and str_to_hilbert(string) written; f.write(string) of a list
\* (a text of at most one character) is a TypeError that leaves it empty
save ==
    /\ edlast.op \in {"enter", "ctrl d"}
    /\ saved' = IF Len(string) > 1 THEN str_to_hilbert(string, None) ELSE <<>>
    /\ edlast' = [op |-> "save", string |-> string, cursor |-> cursor,
                  exc |-> IF Len(string) > 1 THEN "" ELSE "TypeError"]
    /\ UNCHANGED <<string, cursor, text>>
    /\ UNCHANGED aceto

\* the editor started again on the file that was saved: string is read
\* with hilbert_to_str, the cursor is 0 and the text is shown without it
load ==
    /\ edlast.op = "save" /\ edlast.exc = ""
    /\ \E r \in {hilbert_to_str(saved)} :
          /\ r.err # "unmodelled"
          /\ string' = IF r.err = "" THEN r.val ELSE <<>>
          /\ cursor' = 0
          /\ text' = IF r.err # "" THEN Welcome
                     ELSE IF Len(r.val) > 1 THEN ReadLines(str_to_hilbert(r.val, None), <<>>)
                     ELSE IF Len(r.val) = 1 THEN <<r.val>>
                     ELSE Welcome
          /\ edlast' = [op |-> "load", string |-> string, cursor |-> cursor,
                        exc |-> r.err]
    /\ UNCHANGED saved
    /\ UNCHANGED aceto

\* the interpreter is not running: an interpreter made for a blank file
NoAceto == \E f \in {<<<<" ">>, <<" ">>>>} :
    /\ code = load_code_hilbert(f).code /\ p = load_code_hilbert(f).p
    /\ x = 0 /\ y = 0 /\ dir = 1 /\ mode = "command" /\ buf = <<>>
    /\ previous_cmd = " " /\ catch_mark = <<>>
    /\ stacks = [i \in SidRange |-> <<>>] /\ sticky = {} /\ sid = 0
    /\ quick = PyStr(<<>>) /\ allerr = FALSE /\ status = "running"
    /\ nexec = 0
    /\ last = [cmd |-> "", pre |-> Cur(NoEnv), exc |-> "", caught |-> FALSE,
               npop |-> 0, npush |-> 0]

\* the editor started without a file
InitEditor ==
    /\ NoAceto
    /\ string = <<>> /\ cursor = 0 /\ text = Welcome /\ saved = <<>>
    /\ edlast = NoKey

NextEditor == keystroke \/ save \/ load

SpecEditor == InitEditor /\ [][NextEditor]_vars

\* the letters of the texts that are saved
Letters == <<"a", "b", "c", "d", "e", "f", "g", "h", "i", "j", "k", "l", "m",
             "n", "o", "q", "r">>

\* the texts saved: the first letters, up to MaxText of them, the same with
\* a space inside, and every short text of letters, spaces and newlines
SavedTexts ==
    {SubSeq(Letters, 1, n) : n \in 2..MaxText}
      \cup {[SubSeq(Letters, 1, n) EXCEPT ![2] = " "] : n \in 3..MaxText}
      \cup SeqsUpTo({"a", " ", "\n"}, 3)

\* the main loop has ended on a text that was typed or loaded before
InitSave ==
    /\ NoAceto
    /\ \E s \in SavedTexts :
          /\ string = s
          /\ cursor = Len(s)
          /\ text = Shown(s, Len(s))
          /\ edlast = [op |-> "enter", string |-> s, cursor |-> Len(s), exc |-> ""]
    /\ saved = <<>>

NextSave == save \/ load

SpecSave == InitSave /\ [][NextSave]_vars

\* a text the round trip is stated for: two characters or more, no newline,
\* no whitespace at its end
Plain(s) ==
    /\ Len(s) >= 2
    /\ \A i \in 1..Len(s) : s[i] # "\n"
    /\ s[Len(s)] \notin Whitespace

\* C31: for every text of length >= 2 with no newline and no trailing
\* whitespace, the text read back with hilbert_to_str from the file that
\* str_to_hilbert of it was written to is the text itself.
C31_Stated ==
    (edlast.op = "load" /\ Plain(edlast.string))
        => (edlast.exc = "" /\ string = edlast.string)

\* a text of 13 characters is read back as 14: its last character from the
\* cell of curve index 13 and a blank from the cell of index 12
C31_Witness ==
    /\ edlast.op = "load"
    /\ Plain(edlast.string)
    /\ Len(edlast.string) = 13
    /\ Len(string) = 14
    /\ SubSeq(string, 1, 12) = SubSeq(edlast.string, 1, 12)
    /\ string[13] = " "
    /\ string[14] = edlast.string[13]

\* the cursor is on a character of the text or right after its last one
CursorInText == cursor \in 0..Len(string)

\* the last key was a backspace on a text, with the cursor after a character
BackspaceInside == edlast.op = "backspace" /\ edlast.exc = "" /\ edlast.cursor > 0

\* the last key was a backspace with the cursor at position 0
BackspaceAtStart == edlast.op = "backspace" /\ edlast.exc = "" /\ edlast.cursor = 0

\* s without the character immediately before position cur
WithoutBefore(s, cur) == SubSeq(s, 1, cur - 1) \o SubSeq(s, cur + 1, Len(s))

\* C32: after any sequence of keystrokes 0 <= cursor <= len(string); a
\* backspace removes exactly the character immediately before the cursor
\* and moves the cursor one left, and leaves the text unchanged when the
\* cursor is at position 0.
C32_Stated ==
    /\ CursorInText
    /\ BackspaceInside =>
          /\ string = WithoutBefore(edlast.string, edlast.cursor)
          /\ cursor = edlast.cursor - 1
    /\ BackspaceAtStart => string = edlast.string

\* a backspace with the cursor at position 0 of "ab" has removed the "b"
C32_Witness ==
    /\ BackspaceAtStart
    /\ edlast.string = <<"a", "b">>
    /\ string = <<"a">>
    /\ cursor = 0

=============================================================================
